---- MODULE Spec2Model ----
(***************************************************************************)
(* Verification model of the FFT water simulation (WaterFFT.cpp,           *)
(* ThreadUtils.h, Complex.cpp).                                            *)
(*                                                                         *)
(*  Spec        the threading harness: WaterFFTThread (Execute, Wait,      *)
(*              RunWater, Terminate) over Barrier::WaitForAllThreads and   *)
(*              the double buffer of WaterFFT.                             *)
(*  FairSpec    Spec with the fairness a thread scheduler provides.        *)
(*  ReuseSpec   Spec with Wait and Execute called after Terminate.         *)
(*  EditorSpec  Spec with EditorUpdate assigning the two scales.           *)
(*  CtorSpec    the argument checks of the WaterFFT constructor.           *)
(*  HTildeSpec  the pure function WaterFFT::HTilde.                        *)
(*  ComplexSpec one call of a member function of Complex.                  *)
(*  SeedSpec    the seed pair InitializeVertexBuffer stores for one cell:  *)
(*              HTilde0, PhillipsSpectrum, NormalComplexRandom.            *)
(*  MeshSpec    one WaterFFT object used from one thread: Update,          *)
(*              SwapBuffers and the point queries.                         *)
(*  IMapSpec    the same object with UseIntensityMap and                   *)
(*              RemoveIntensityMap, decodable file or not.                 *)
(***************************************************************************)
EXTENDS Integers, Sequences, FiniteSets, TLC

\* ------------------------------------------------------------------------
\* Bounds of the model
\* ------------------------------------------------------------------------
\* number of vertices of a vertex array that Update writes one by one
NumVerts == 2
\* number of frames (non-kill Wait calls) the consumer runs before shutdown
MaxWaits == 2
\* number of spurious wake-ups of the condition variable in one behaviour
MaxSpurious == 1
\* number of Updates a thread started by a second Execute begins
MaxRestartUpdates == 2
\* the editor sets the two scales to values in 1..MaxScale
MaxScale == 2
\* largest grid_dimension the constructor is tried with
MaxGridDim == 17
\* largest meter_dimension, in centimetres, the constructor is tried with
MaxMeterCm == 5
\* seeds are drawn with real and imaginary parts in -MaxSeed..MaxSeed
MaxSeed == 1
\* wavevectors are drawn with components in -MaxK..MaxK (rad/m)
MaxK == 1
\* times are drawn from 0, 50, .., 50 * MaxQuarterPeriods seconds
MaxQuarterPeriods == 4
\* the float omega_t lies up to MaxRounding / TrigUnit radians off the angle
MaxRounding == 1
\* RAND_MAX of the seed draws is 2 * RandHalf + 1
RandHalf == 1
\* m_Wind is drawn with components in -MaxWind..MaxWind
MaxWind == 1
\* m_Amplitude is drawn from 2 * a * a for a in 0..MaxAmplitudeRoot
MaxAmplitudeRoot == 1
\* largest grid dimension the seeds are computed for
MaxSeedGrid == 4
\* largest grid dimension of the mesh that is updated and queried
MaxMeshGrid == 4
\* Update is called with times 0..MaxTime
MaxTime == 1
\* query locations have coordinates in -MaxLoc..MaxLoc grid units
MaxLoc == 2
\* query locations are multiples of 1 / (2 * LocRes) of a grid unit
LocRes == 1
\* the expansion the WaterFFT object is constructed with
Expansion == 2

\* ------------------------------------------------------------------------
\* Program constants
\* ------------------------------------------------------------------------
\* Barrier WaterFFTThread::m_Barrier(2)
TotalThreads == 2
\* #define MIN_DX_DZ 0.02f, in centimetres
MinDxDzCm == 2
\* the period of w_0 = TAU / 200.0f, in seconds
W0Period == 200
\* m_Gravity^2 / w_0^4 for m_Gravity = 9.81f and w_0 = TAU / 200.0f
DispersionScale == 98795809
\* float cos_omega_t, sin_omega_t: values are counted in units of 1 / TrigUnit
TrigUnit == 1024

Threads == {"main", "bg"}
Buffers == {"A", "B"}

Other(t) == IF t = "main" THEN "bg" ELSE "main"

VARIABLES
  \* WaterFFTThread / Barrier
  m_Running,        \* WaterFFTThread::m_Running
  m_KnockedDown,    \* Barrier::m_KnockedDown
  m_ThreadsLeft,    \* Barrier::m_ThreadsLeft
  m_Mutex,          \* Barrier::m_Mutex: "free" or the owning thread
  m_CV,             \* Barrier::m_CV: per thread "none" | "waiting" | "notified"
  pc,               \* position of each thread
  knock_down,       \* the knock_down argument of each thread's current call
  \* WaterFFT double buffer
  m_ReadBuffer,     \* WaterFFT::m_ReadBuffer (names a vertex array)
  m_WriteBuffer,    \* WaterFFT::m_WriteBuffer
  temp,             \* local temp of SwapBuffers
  VertexBuffer,     \* contents of m_VertexBufferA / m_VertexBufferB
  m_VertexBuffer,   \* WaterRenderer::m_VertexBuffer
  vertex_index,     \* loop position of the Update in progress
  m_HeightScale,    \* WaterFFT::m_HeightScale
  m_DisplaceScale,  \* WaterFFT::m_DisplaceScale
  heightScalesRead,   \* history: values of m_HeightScale the Update has read
  displaceScalesRead, \* history: values of m_DisplaceScale it has read
  \* history of the run
  updatesStarted, updatesCompleted, swapCount, callbackCount, arrivals,
  waitsCalled, waitsReturned, updatesAtWaitReturn, spuriousCount,
  lastRendered, snapAtCall, snapAtReturn,
  startedAtClear,   \* updatesStarted when Terminate cleared m_Running
  startedAtRestart, \* updatesStarted at an Execute after Terminate, else -1
  \* WaterFFT constructor
  ctorPc, grid_dimension, meter_dimension, gd_check, m_XStride, thrown,
  \* WaterFFT::HTilde
  htildePc, htilde0, htilde0_conjugate, k, time, htilde,
  omega_t_rounding, \* how far the float omega_t of the call was off
  \* one call of a member function of Complex
  complexPc,        \* "off" | "call" | "done"
  thisBefore,       \* *this before the call
  argument,         \* the argument of the call
  aliased,          \* the argument is *this itself
  op,               \* the member function called
  thisAfter,        \* *this after the call
  returned,         \* the value the call returned
  \* WaterFFT::InitializeVertexBuffer, the seeds of one cell
  seedPc,           \* "off" | "cell" | "done" | "mirrored"
  m_fft_XStride,    \* WaterFFT::m_fft_XStride (= m_fft_ZStride)
  cell,             \* << x, z >> of the loops of InitializeVertexBuffer
  m_Wind,           \* WaterFFT::m_Wind
  m_Amplitude,      \* WaterFFT::m_Amplitude
  m_VertexExtra,    \* the element pushed to m_VertexExtrasBuffer
  m_MirrorHTilde0,  \* m_HTilde0 of the element pushed for the cell of -k
  \* one WaterFFT object and its single-threaded caller
  meshPc,           \* "off" | "ready" | "crashed"
  water,            \* the fields of the WaterFFT object
  lastUpdate,       \* history: the array the last Update wrote, and its map
  nullSampled,      \* history: GetIntensity has read through a null m_Data
  location,         \* the argument of the last point query
  result,           \* the value the last point query returned
  reads             \* history: the vertices the last point query read

harnessVars ==
  << m_Running, m_KnockedDown, m_ThreadsLeft, m_Mutex, m_CV, pc, knock_down,
     m_ReadBuffer, m_WriteBuffer, temp, VertexBuffer, m_VertexBuffer,
     vertex_index, updatesStarted, updatesCompleted, swapCount,
     callbackCount, arrivals, waitsCalled, waitsReturned,
     updatesAtWaitReturn, spuriousCount, lastRendered, snapAtCall,
     snapAtReturn, startedAtClear, startedAtRestart, m_HeightScale,
     m_DisplaceScale, heightScalesRead, displaceScalesRead >>

ctorVars ==
  << ctorPc, grid_dimension, meter_dimension, gd_check, m_XStride, thrown >>

htildeVars ==
  << htildePc, htilde0, htilde0_conjugate, k, time, htilde,
     omega_t_rounding >>

complexVars ==
  << complexPc, thisBefore, argument, aliased, op, thisAfter, returned >>

seedVars ==
  << seedPc, m_fft_XStride, cell, m_Wind, m_Amplitude, m_VertexExtra,
     m_MirrorHTilde0 >>

meshVars ==
  << meshPc, water, lastUpdate, nullSampled, location, result, reads >>

vars ==
  << harnessVars, ctorVars, htildeVars, complexVars, seedVars, meshVars >>

\* ------------------------------------------------------------------------
\* State after construction: WaterFFTHolder::Initialize and
\* WaterRenderer::SetBuffers have run, WaterFFTThread::Execute has not.
\* ------------------------------------------------------------------------
\* every vertex of both arrays holds the rest position (frame 0)
InitializeVertexBuffer == [b \in Buffers |-> [i \in 1..NumVerts |-> 0]]

Snapshot == << VertexBuffer, m_ReadBuffer, m_WriteBuffer >>

HarnessInit ==
  /\ m_Running = FALSE
  /\ m_KnockedDown = FALSE
  /\ m_ThreadsLeft = TotalThreads
  /\ m_Mutex = "free"
  /\ m_CV = [t \in Threads |-> "none"]
  /\ pc = [t \in Threads |-> IF t = "main" THEN "idle" ELSE "unborn"]
  /\ knock_down = [t \in Threads |-> FALSE]
  /\ m_ReadBuffer = "A"
  /\ m_WriteBuffer = "B"
  /\ temp = "A"
  /\ VertexBuffer = InitializeVertexBuffer
  /\ m_VertexBuffer = "A"
  /\ vertex_index = 1
  /\ updatesStarted = 0
  /\ updatesCompleted = 0
  /\ swapCount = 0
  /\ callbackCount = 0
  /\ arrivals = [t \in Threads |-> 0]
  /\ waitsCalled = 0
  /\ waitsReturned = 0
  /\ updatesAtWaitReturn = 0
  /\ spuriousCount = 0
  /\ lastRendered = << >>
  /\ snapAtCall = << >>
  /\ snapAtReturn = << >>
  /\ startedAtClear = 0
  /\ startedAtRestart = -1
  /\ m_HeightScale = 1
  /\ m_DisplaceScale = 1
  /\ heightScalesRead = {}
  /\ displaceScalesRead = {}

CtorIdle ==
  /\ ctorPc = "off"
  /\ grid_dimension = 0
  /\ meter_dimension = 0
  /\ gd_check = 0
  /\ m_XStride = 0
  /\ thrown = "none"

HTildeIdle ==
  /\ htildePc = "off"
  /\ htilde0 = [re |-> 0, im |-> 0]
  /\ htilde0_conjugate = [re |-> 0, im |-> 0]
  /\ k = << 0, 0 >>
  /\ time = 0
  /\ htilde = [re |-> 0, im |-> 0]
  /\ omega_t_rounding = 0

ComplexIdle ==
  /\ complexPc = "off"
  /\ thisBefore = [re |-> 0, im |-> 0]
  /\ argument = [re |-> 0, im |-> 0]
  /\ aliased = FALSE
  /\ op = "none"
  /\ thisAfter = [re |-> 0, im |-> 0]
  /\ returned = [re |-> 0, im |-> 0]

SeedIdle ==
  /\ seedPc = "off"
  /\ m_fft_XStride = 0
  /\ cell = << 0, 0 >>
  /\ m_Wind = << 0, 0 >>
  /\ m_Amplitude = 0
  /\ m_VertexExtra = << >>
  /\ m_MirrorHTilde0 = << >>

\* no Update yet
NoUpdate == [buffer |-> "none", undecoded |-> FALSE, time |-> 0]
\* no point query yet
NoResult == [m_Height |-> 0, m_Normal |-> << 0, 0, 0 >>]

MeshIdle ==
  /\ meshPc = "off"
  /\ water = [m_XStride |-> 0]
  /\ lastUpdate = NoUpdate
  /\ nullSampled = FALSE
  /\ location = << 0, 0 >>
  /\ result = NoResult
  /\ reads = {}

Init ==
  HarnessInit /\ CtorIdle /\ HTildeIdle /\ ComplexIdle /\ SeedIdle /\ MeshIdle

\* ------------------------------------------------------------------------
\* Variable groups
\* ------------------------------------------------------------------------
barrierVars == << m_KnockedDown, m_ThreadsLeft, m_Mutex, m_CV >>
bufferVars == << m_ReadBuffer, m_WriteBuffer, temp, VertexBuffer,
                 m_VertexBuffer >>
updateVars == << vertex_index, updatesStarted, updatesCompleted >>
waitVars == << waitsCalled, waitsReturned, updatesAtWaitReturn >>
termVars == << snapAtCall, snapAtReturn, startedAtClear, startedAtRestart >>
scaleVars == << m_HeightScale, m_DisplaceScale, heightScalesRead,
                displaceScalesRead >>
otherVars == << ctorVars, htildeVars, complexVars, seedVars, meshVars >>

\* ------------------------------------------------------------------------
\* WaterFFTThread::Execute: set the flag, spawn the thread running RunWater
\* ------------------------------------------------------------------------
Execute ==
  /\ pc["main"] = "idle"
  /\ m_Running' = TRUE
  /\ pc' = [pc EXCEPT !["main"] = "ready", !["bg"] = "loop"]
  /\ UNCHANGED << barrierVars, bufferVars, updateVars, waitVars, termVars,
                  knock_down, swapCount, callbackCount, arrivals,
                  spuriousCount, lastRendered, scaleVars, otherVars >>

\* ------------------------------------------------------------------------
\* WaterFFTThread::RunWater: while(m_Running) { Update; WaitForAllThreads }
\* ------------------------------------------------------------------------
\* m_Running is a plain bool written by the consumer; each evaluation of the
\* loop condition reads the value the flag has at that moment.
\* the flag is read true: WaterFFTHolder::Update(m_FetchTime()) begins
RunWaterEnter ==
  /\ pc["bg"] = "loop"
  /\ m_Running
  /\ startedAtRestart >= 0 =>
       updatesStarted < startedAtRestart + MaxRestartUpdates
  /\ pc' = [pc EXCEPT !["bg"] = "update"]
  /\ vertex_index' = 1
  /\ updatesStarted' = updatesStarted + 1
  /\ heightScalesRead' = {}
  /\ displaceScalesRead' = {}
  /\ UNCHANGED << m_Running, barrierVars, bufferVars, updatesCompleted,
                  waitVars, termVars, knock_down, swapCount, callbackCount,
                  arrivals, spuriousCount, lastRendered, m_HeightScale,
                  m_DisplaceScale, otherVars >>

\* a thread function that also returns from the middle of an Update
RunWaterExit_MidUpdate ==
  /\ pc["bg"] \in {"loop", "update"}
  /\ ~m_Running
  /\ pc' = [pc EXCEPT !["bg"] = "done"]
  /\ UNCHANGED << m_Running, barrierVars, bufferVars, updateVars, waitVars,
                  termVars, knock_down, swapCount, callbackCount, arrivals,
                  spuriousCount, lastRendered, scaleVars, otherVars >>

\* the flag is read false: the thread function returns
RunWaterExit ==
  /\ pc["bg"] = "loop"
  /\ ~m_Running
  /\ pc' = [pc EXCEPT !["bg"] = "done"]
  /\ UNCHANGED << m_Running, barrierVars, bufferVars, updateVars, waitVars,
                  termVars, knock_down, swapCount, callbackCount, arrivals,
                  spuriousCount, lastRendered, scaleVars, otherVars >>

\* WaterFFT::UpdateFFT: one vertex of (*m_WriteBuffer) is overwritten with the
\* value of the frame being computed, for which m_HeightScale and
\* m_DisplaceScale are read; after the last one the thread calls
\* m_Barrier.WaitForAllThreads(PrepBuffers, false)
UpdateFFT ==
  /\ pc["bg"] = "update"
  /\ heightScalesRead' = heightScalesRead \cup { m_HeightScale }
  /\ displaceScalesRead' = displaceScalesRead \cup { m_DisplaceScale }
  /\ VertexBuffer' = [VertexBuffer EXCEPT
                        ![m_WriteBuffer][vertex_index] = updatesStarted]
  /\ IF vertex_index = NumVerts
       THEN /\ pc' = [pc EXCEPT !["bg"] = "b_check"]
            /\ knock_down' = [knock_down EXCEPT !["bg"] = FALSE]
            /\ updatesCompleted' = updatesCompleted + 1
            /\ UNCHANGED vertex_index
       ELSE /\ vertex_index' = vertex_index + 1
            /\ UNCHANGED << pc, knock_down, updatesCompleted >>
  /\ UNCHANGED << m_Running, barrierVars, m_ReadBuffer, m_WriteBuffer, temp,
                  m_VertexBuffer, updatesStarted, waitVars, termVars,
                  swapCount, callbackCount, arrivals, spuriousCount,
                  lastRendered, m_HeightScale, m_DisplaceScale, otherVars >>

\* ------------------------------------------------------------------------
\* The consumer (Simulation::Run, Simulation::Clean)
\* ------------------------------------------------------------------------
\* WaterFFTThread::Wait(): m_Barrier.WaitForAllThreads(PrepBuffers, false)
Wait ==
  /\ pc["main"] = "ready"
  /\ waitsCalled < MaxWaits
  /\ pc' = [pc EXCEPT !["main"] = "b_check"]
  /\ knock_down' = [knock_down EXCEPT !["main"] = FALSE]
  /\ waitsCalled' = waitsCalled + 1
  /\ UNCHANGED << m_Running, barrierVars, bufferVars, updateVars,
                  waitsReturned, updatesAtWaitReturn, termVars, swapCount,
                  callbackCount, arrivals, spuriousCount, lastRendered,
                  scaleVars, scaleVars, otherVars >>

\* WaterRenderer::Render after Wait(): the array behind m_VertexBuffer is read
Render ==
  /\ pc["main"] = "render"
  /\ lastRendered' = VertexBuffer[m_VertexBuffer]
  /\ pc' = [pc EXCEPT !["main"] = "ready"]
  /\ UNCHANGED << m_Running, barrierVars, bufferVars, updateVars, waitVars,
                  termVars, knock_down, swapCount, callbackCount, arrivals,
                  spuriousCount, scaleVars, otherVars >>

\* WaterFFTThread::Terminate, first statement: m_Running = false; then
\* Wait(true) is called
Terminate ==
  /\ pc["main"] = "ready"
  /\ m_Running' = FALSE
  /\ pc' = [pc EXCEPT !["main"] = "b_entry"]
  /\ knock_down' = [knock_down EXCEPT !["main"] = TRUE]
  /\ snapAtCall' = Snapshot
  /\ startedAtClear' = updatesStarted
  /\ UNCHANGED << barrierVars, bufferVars, updateVars, waitVars, snapAtReturn,
                  startedAtRestart, swapCount, callbackCount, arrivals,
                  spuriousCount, lastRendered, scaleVars, otherVars >>

\* a join that does not wait for the thread function to return
Join_NoWait ==
  /\ pc["main"] = "join"
  /\ pc' = [pc EXCEPT !["main"] = "stopped"]
  /\ snapAtReturn' = Snapshot
  /\ UNCHANGED << m_Running, barrierVars, bufferVars, updateVars, waitVars,
                  snapAtCall, startedAtClear, startedAtRestart, knock_down,
                  swapCount, callbackCount, arrivals, spuriousCount,
                  lastRendered, scaleVars, otherVars >>

\* WaterFFTThread::Terminate, last statement: m_Water->join()
Join ==
  /\ pc["main"] = "join"
  /\ pc["bg"] = "done"
  /\ pc' = [pc EXCEPT !["main"] = "stopped"]
  /\ snapAtReturn' = Snapshot
  /\ UNCHANGED << m_Running, barrierVars, bufferVars, updateVars, waitVars,
                  snapAtCall, startedAtClear, startedAtRestart, knock_down,
                  swapCount, callbackCount, arrivals, spuriousCount,
                  lastRendered, scaleVars, otherVars >>

\* EditorUpdate, after the frame's Render:
\* GetWaterFFT()->m_HeightScale = editor_height_scale;
EditorUpdateHeightScale ==
  /\ pc["main"] = "ready"
  /\ lastRendered # << >>
  /\ \E editor_height_scale \in 1..MaxScale :
       m_HeightScale' = editor_height_scale
  /\ pc' = [pc EXCEPT !["main"] = "editor"]
  /\ UNCHANGED << m_Running, barrierVars, bufferVars, updateVars, waitVars,
                  termVars, knock_down, swapCount, callbackCount, arrivals,
                  spuriousCount, lastRendered, m_DisplaceScale,
                  heightScalesRead, displaceScalesRead, otherVars >>

\* GetWaterFFT()->m_DisplaceScale = editor_displace_scale;
EditorUpdateDisplaceScale ==
  /\ pc["main"] = "editor"
  /\ \E editor_displace_scale \in 1..MaxScale :
       m_DisplaceScale' = editor_displace_scale
  /\ pc' = [pc EXCEPT !["main"] = "ready"]
  /\ UNCHANGED << m_Running, barrierVars, bufferVars, updateVars, waitVars,
                  termVars, knock_down, swapCount, callbackCount, arrivals,
                  spuriousCount, lastRendered, m_HeightScale,
                  heightScalesRead, displaceScalesRead, otherVars >>

\* WaterFFTThread::Execute called again after Terminate has returned: the
\* flag is set and a new thread runs RunWater
ExecuteAfterTerminate ==
  /\ pc["main"] = "stopped"
  /\ pc["bg"] = "done"
  /\ startedAtRestart = -1
  /\ m_Running' = TRUE
  /\ pc' = [pc EXCEPT !["main"] = "ready", !["bg"] = "loop"]
  /\ startedAtRestart' = updatesStarted
  /\ UNCHANGED << barrierVars, bufferVars, updateVars, waitVars, snapAtCall,
                  snapAtReturn, startedAtClear, knock_down, swapCount,
                  callbackCount, arrivals, spuriousCount, lastRendered,
                  scaleVars, scaleVars, otherVars >>

\* WaterFFTThread::Wait() called after Terminate has returned
WaitAfterTerminate ==
  /\ pc["main"] = "stopped"
  /\ waitsCalled < MaxWaits
  /\ pc' = [pc EXCEPT !["main"] = "b_check"]
  /\ knock_down' = [knock_down EXCEPT !["main"] = FALSE]
  /\ waitsCalled' = waitsCalled + 1
  /\ UNCHANGED << m_Running, barrierVars, bufferVars, updateVars,
                  waitsReturned, updatesAtWaitReturn, termVars, swapCount,
                  callbackCount, arrivals, spuriousCount, lastRendered,
                  scaleVars, scaleVars, otherVars >>

\* ------------------------------------------------------------------------
\* Barrier::WaitForAllThreads(single_callback, knock_down)
\* ------------------------------------------------------------------------
\* std::condition_variable::notify_all
notify_all(cv) ==
  [t \in Threads |-> IF cv[t] = "waiting" THEN "notified" ELSE cv[t]]

\* where a thread continues when WaitForAllThreads returns
ReturnPc(t) ==
  IF t = "bg" THEN "loop"
  ELSE IF knock_down[t] THEN "join" ELSE "render"

\* the return of WaitForAllThreads, with the bookkeeping of the run's history
Return(t) ==
  /\ pc' = [pc EXCEPT ![t] = ReturnPc(t)]
  /\ IF t = "main" /\ ~knock_down[t]
       THEN /\ waitsReturned' = waitsReturned + 1
            /\ updatesAtWaitReturn' = updatesCompleted
       ELSE UNCHANGED << waitsReturned, updatesAtWaitReturn >>
  /\ UNCHANGED waitsCalled

\* if(knock_down) m_KnockedDown = true;
BarrierKnockDown(t) ==
  /\ pc[t] = "b_entry"
  /\ knock_down[t]
  /\ m_KnockedDown' = TRUE
  /\ pc' = [pc EXCEPT ![t] = "b_notify"]
  /\ UNCHANGED << m_Running, m_ThreadsLeft, m_Mutex, m_CV, bufferVars,
                  updateVars, waitVars, termVars, knock_down, swapCount,
                  callbackCount, arrivals, spuriousCount, lastRendered,
                  scaleVars, scaleVars, otherVars >>

\* if(knock_down) ... m_CV.notify_all();
BarrierKnockNotify(t) ==
  /\ pc[t] = "b_notify"
  /\ m_CV' = notify_all(m_CV)
  /\ pc' = [pc EXCEPT ![t] = "b_check"]
  /\ UNCHANGED << m_Running, m_KnockedDown, m_ThreadsLeft, m_Mutex,
                  bufferVars, updateVars, waitVars, termVars, knock_down,
                  swapCount, callbackCount, arrivals, spuriousCount,
                  lastRendered, scaleVars, otherVars >>

\* if(!m_KnockedDown) read false: go on to take the lock
BarrierCheckPass(t) ==
  /\ pc[t] = "b_check"
  /\ ~m_KnockedDown
  /\ pc' = [pc EXCEPT ![t] = "b_lock"]
  /\ UNCHANGED << m_Running, barrierVars, bufferVars, updateVars, waitVars,
                  termVars, knock_down, swapCount, callbackCount, arrivals,
                  spuriousCount, lastRendered, scaleVars, otherVars >>

\* if(!m_KnockedDown) read true: the body is skipped and the call returns
BarrierCheckSkip(t) ==
  /\ pc[t] = "b_check"
  /\ m_KnockedDown
  /\ Return(t)
  /\ UNCHANGED << m_Running, barrierVars, bufferVars, updateVars, termVars,
                  knock_down, swapCount, callbackCount, arrivals,
                  spuriousCount, lastRendered, scaleVars, otherVars >>

\* lock; --m_ThreadsLeft; the count is not 0: m_CV.wait(lock) releases the
\* mutex and blocks the thread
BarrierArriveFirst(t) ==
  /\ pc[t] = "b_lock"
  /\ m_Mutex = "free"
  /\ m_ThreadsLeft - 1 # 0
  /\ m_ThreadsLeft' = m_ThreadsLeft - 1
  /\ arrivals' = [arrivals EXCEPT ![t] = @ + 1]
  /\ m_CV' = [m_CV EXCEPT ![t] = "waiting"]
  /\ pc' = [pc EXCEPT ![t] = "b_wait"]
  /\ UNCHANGED << m_Running, m_KnockedDown, m_Mutex, bufferVars, updateVars,
                  waitVars, termVars, knock_down, swapCount, callbackCount,
                  spuriousCount, lastRendered, scaleVars, otherVars >>

\* lock; --m_ThreadsLeft; the count is 0: single_callback() is entered with
\* the mutex held
BarrierArriveLast(t) ==
  /\ pc[t] = "b_lock"
  /\ m_Mutex = "free"
  /\ m_ThreadsLeft - 1 = 0
  /\ m_ThreadsLeft' = m_ThreadsLeft - 1
  /\ arrivals' = [arrivals EXCEPT ![t] = @ + 1]
  /\ m_Mutex' = t
  /\ callbackCount' = callbackCount + 1
  /\ pc' = [pc EXCEPT ![t] = "cb_swap"]
  /\ UNCHANGED << m_Running, m_KnockedDown, m_CV, bufferVars, updateVars,
                  waitVars, termVars, knock_down, swapCount, spuriousCount,
                  lastRendered, scaleVars, otherVars >>

\* WaterFFT::SwapBuffers: temp = m_ReadBuffer; m_ReadBuffer = m_WriteBuffer;
SwapBuffersRead(t) ==
  /\ pc[t] = "cb_swap"
  /\ temp' = m_ReadBuffer
  /\ m_ReadBuffer' = m_WriteBuffer
  /\ swapCount' = swapCount + 1
  /\ pc' = [pc EXCEPT ![t] = "cb_swap2"]
  /\ UNCHANGED << m_Running, barrierVars, m_WriteBuffer, VertexBuffer,
                  m_VertexBuffer, updateVars, waitVars, termVars, knock_down,
                  callbackCount, arrivals, spuriousCount, lastRendered,
                  scaleVars, scaleVars, otherVars >>

\* WaterFFT::SwapBuffers: m_WriteBuffer = temp;
SwapBuffersWrite(t) ==
  /\ pc[t] = "cb_swap2"
  /\ m_WriteBuffer' = temp
  /\ pc' = [pc EXCEPT ![t] = "cb_publish"]
  /\ UNCHANGED << m_Running, barrierVars, m_ReadBuffer, temp, VertexBuffer,
                  m_VertexBuffer, updateVars, waitVars, termVars, knock_down,
                  swapCount, callbackCount, arrivals, spuriousCount,
                  lastRendered, scaleVars, otherVars >>

\* a callback that publishes the pointer it read before the swap
SetVertexBuffer_BeforeSwap(t) ==
  /\ pc[t] = "cb_publish"
  /\ m_VertexBuffer' = m_WriteBuffer
  /\ pc' = [pc EXCEPT ![t] = "b_release"]
  /\ UNCHANGED << m_Running, barrierVars, m_ReadBuffer, m_WriteBuffer, temp,
                  VertexBuffer, updateVars, waitVars, termVars, knock_down,
                  swapCount, callbackCount, arrivals, spuriousCount,
                  lastRendered, scaleVars, otherVars >>

\* WaterFFTHolder::PrepBuffers: WaterRenderer::SetVertexBuffer(VertexBuffer())
SetVertexBuffer(t) ==
  /\ pc[t] = "cb_publish"
  /\ m_VertexBuffer' = m_ReadBuffer
  /\ pc' = [pc EXCEPT ![t] = "b_release"]
  /\ UNCHANGED << m_Running, barrierVars, m_ReadBuffer, m_WriteBuffer, temp,
                  VertexBuffer, updateVars, waitVars, termVars, knock_down,
                  swapCount, callbackCount, arrivals, spuriousCount,
                  lastRendered, scaleVars, otherVars >>

\* m_ThreadsLeft = m_TotalThreads; m_CV.notify_all(); the lock goes out of
\* scope and the call returns
BarrierRelease(t) ==
  /\ pc[t] = "b_release"
  /\ m_ThreadsLeft' = TotalThreads
  /\ m_CV' = notify_all(m_CV)
  /\ m_Mutex' = "free"
  /\ Return(t)
  /\ UNCHANGED << m_Running, m_KnockedDown, bufferVars, updateVars, termVars,
                  knock_down, swapCount, callbackCount, arrivals,
                  spuriousCount, lastRendered, scaleVars, otherVars >>

\* m_CV.wait(lock) has no predicate and no loop: the standard lets the wait
\* unblock without any notification
SpuriousWake(t) ==
  /\ pc[t] = "b_wait"
  /\ m_CV[t] = "waiting"
  /\ spuriousCount < MaxSpurious
  /\ m_CV' = [m_CV EXCEPT ![t] = "notified"]
  /\ spuriousCount' = spuriousCount + 1
  /\ UNCHANGED << m_Running, m_KnockedDown, m_ThreadsLeft, m_Mutex, pc,
                  bufferVars, updateVars, waitVars, termVars, knock_down,
                  swapCount, callbackCount, arrivals, lastRendered,
                  scaleVars, scaleVars, otherVars >>

\* m_CV.wait(lock) unblocked: the mutex is reacquired, the lock goes out of
\* scope and the call returns
BarrierWake(t) ==
  /\ pc[t] = "b_wait"
  /\ m_CV[t] = "notified"
  /\ m_Mutex = "free"
  /\ m_CV' = [m_CV EXCEPT ![t] = "none"]
  /\ Return(t)
  /\ UNCHANGED << m_Running, m_KnockedDown, m_ThreadsLeft, m_Mutex,
                  bufferVars, updateVars, termVars, knock_down, swapCount,
                  callbackCount, arrivals, spuriousCount, lastRendered,
                  scaleVars, scaleVars, otherVars >>

WaitForAllThreads(t) ==
  \/ BarrierKnockDown(t)
  \/ BarrierKnockNotify(t)
  \/ BarrierCheckPass(t)
  \/ BarrierCheckSkip(t)
  \/ BarrierArriveFirst(t)
  \/ BarrierArriveLast(t)
  \/ SwapBuffersRead(t)
  \/ SwapBuffersWrite(t)
  \/ SetVertexBuffer(t)
  \/ BarrierRelease(t)
  \/ BarrierWake(t)

\* the steps of the background thread that a scheduler eventually runs
RunWater ==
  \/ RunWaterEnter
  \/ RunWaterExit
  \/ UpdateFFT
  \/ WaitForAllThreads("bg")

\* the steps of the consumer thread
Consumer ==
  \/ Execute
  \/ Wait
  \/ Render
  \/ Terminate
  \/ Join
  \/ WaitForAllThreads("main")

Next ==
  \/ RunWater
  \/ Consumer
  \/ \E t \in Threads : SpuriousWake(t)

Spec == Init /\ [][Next]_vars

\* a scheduler runs every thread that can run; nothing obliges a condition
\* variable to wake a waiter spuriously
FairSpec == Spec /\ WF_vars(RunWater) /\ WF_vars(Consumer)

\* the harness used again after Terminate has returned
ReuseNext ==
  \/ RunWater
  \/ Consumer
  \/ ExecuteAfterTerminate
  \/ WaitAfterTerminate
  \/ \E t \in Threads : SpuriousWake(t)

ReuseSpec == Init /\ [][ReuseNext]_vars

\* the harness with the editor's assignments of every frame
EditorNext ==
  \/ RunWater
  \/ Consumer
  \/ EditorUpdateHeightScale
  \/ EditorUpdateDisplaceScale
  \/ \E t \in Threads : SpuriousWake(t)

EditorSpec == Init /\ [][EditorNext]_vars

\* ------------------------------------------------------------------------
\* Claims about the threading harness
\* ------------------------------------------------------------------------
InSwapBuffers(t) == pc[t] \in {"cb_swap", "cb_swap2"}
InCallback(t) == pc[t] \in {"cb_swap", "cb_swap2", "cb_publish", "b_release"}
Updating == pc["bg"] = "update"
TerminateCalled == snapAtCall # << >>
TerminateReturned == pc["main"] = "stopped"

\* C1: while the background thread is inside an Update no SwapBuffers is
\* executing, and the array the Update writes is neither the one designated
\* read nor the one the renderer pointer refers to.
C1_NoBufferObservedMidUpdate ==
  Updating =>
    /\ \A t \in Threads : ~InSwapBuffers(t)
    /\ m_WriteBuffer # m_ReadBuffer
    /\ m_WriteBuffer # m_VertexBuffer

\* C2: the release callback runs with the barrier mutex held by the party
\* that arrived second while the other party is blocked in the wait of the
\* same rendezvous, and it runs exactly once per rendezvous: the callbacks
\* run so far never exceed either party's arrivals, and no party is more than
\* one arrival ahead of them.
C2_CallbackOncePerRendezvous ==
  /\ \A t \in Threads :
       InCallback(t) =>
         /\ m_Mutex = t
         /\ pc[Other(t)] = "b_wait"
         /\ arrivals[Other(t)] = arrivals[t]
  /\ \A t \in Threads :
       /\ callbackCount <= arrivals[t]
       /\ arrivals[t] <= callbackCount + 1

\* C3: while the harness is running, completed Updates minus swaps is 0 or 1,
\* the read buffer holds, whole, the frame whose number is the number of
\* swaps, and the frame rendered after the k-th Wait is frame k.
C3_LockStepFrames ==
  m_Running =>
    /\ updatesCompleted - swapCount \in {0, 1}
    /\ \A i \in 1..NumVerts : VertexBuffer[m_ReadBuffer][i] = swapCount
    /\ (pc["main"] = "ready" /\ lastRendered # << >>) =>
         \A i \in 1..NumVerts : lastRendered[i] = waitsReturned

\* C4: under fair scheduling every call of Terminate() returns.
C4_TerminateReturns == TerminateCalled ~> TerminateReturned

\* C5 as stated: when Terminate() has returned, both vertex arrays and the
\* read/write designation equal their values at the call of Terminate(), and
\* they do not change afterwards.
C5_BuffersAsAtTerminateCall ==
  TerminateReturned => (snapAtReturn = snapAtCall /\ Snapshot = snapAtReturn)

\* C5 as amended: when Terminate() has returned the background thread has
\* exited, and both vertex arrays and the read/write designation keep the
\* values they had at the return of Terminate().
C5_BuffersFrozenAfterTerminate ==
  TerminateReturned => (pc["bg"] = "done" /\ Snapshot = snapAtReturn)

\* a Terminate() that was called while an Update was in progress has returned
C5_Witness ==
  /\ TerminateReturned
  /\ snapAtReturn # snapAtCall

\* C6: when the k-th non-kill Wait() returns exactly k Updates have completed.
C6_ExactlyKUpdatesAtKthWait ==
  waitsReturned > 0 => updatesAtWaitReturn = waitsReturned

\* C7: a party leaves the condition wait only if the other party has arrived
\* at the same rendezvous or the barrier is knocked down, and the notify of a
\* knock-down leaves no party blocked in the wait.
C7_BlockedUntilArrivalOrKnockDown ==
  [][ /\ \A t \in Threads :
           (pc[t] = "b_wait" /\ pc'[t] # "b_wait") =>
              (m_KnockedDown \/ arrivals[Other(t)] >= arrivals[t])
      /\ \A t \in Threads :
           (pc[t] = "b_notify" /\ pc'[t] # "b_notify") =>
              \A u \in Threads : m_CV'[u] # "waiting" ]_vars

\* ------------------------------------------------------------------------
\* WaterFFT::WaterFFT: the checks of the constructor's arguments
\* ------------------------------------------------------------------------
\* values an unsigned member can hold before anything is assigned to it
UninitializedUnsigned == {0, 1, 2, 3, 1000}

CtorInit ==
  /\ ctorPc = "check_grid"
  /\ grid_dimension \in 0..MaxGridDim
  /\ meter_dimension \in 0..MaxMeterCm
  /\ gd_check = grid_dimension
  /\ m_XStride \in UninitializedUnsigned
  /\ thrown = "none"
  /\ HarnessInit
  /\ ComplexIdle
  /\ HTildeIdle
  /\ SeedIdle
  /\ MeshIdle

\* float dx_dz = meter_dimension / (float)stride; dx_dz < MIN_DX_DZ, with
\* lengths in centimetres; a non-negative length over 0 is +inf or NaN and
\* compares false
SmallDxDz(meter_cm, stride) ==
  IF stride = 0 THEN FALSE ELSE meter_cm < MinDxDzCm * stride

\* one turn of while (gd_check > 2): throw on an odd value, else halve
CtorGridLoop ==
  /\ ctorPc = "check_grid"
  /\ gd_check > 2
  /\ IF gd_check % 2 # 0
       THEN /\ thrown' = "INVALID_GRID_DIM"
            /\ ctorPc' = "thrown"
            /\ UNCHANGED gd_check
       ELSE /\ gd_check' = gd_check \div 2
            /\ UNCHANGED << thrown, ctorPc >>
  /\ UNCHANGED << grid_dimension, meter_dimension, m_XStride, harnessVars,
                  complexVars, htildeVars, seedVars, meshVars >>

\* the loop ends when gd_check <= 2
CtorGridLoopExit ==
  /\ ctorPc = "check_grid"
  /\ ~(gd_check > 2)
  /\ ctorPc' = "check_dx"
  /\ UNCHANGED << grid_dimension, meter_dimension, gd_check, m_XStride,
                  thrown, harnessVars, complexVars, htildeVars, seedVars,
                  meshVars >>

\* dx_dz is computed from m_XStride, which nothing has assigned yet
CtorDxDzCheck ==
  /\ ctorPc = "check_dx"
  /\ IF SmallDxDz(meter_dimension, m_XStride)
       THEN /\ thrown' = "SMALL_DX_DZ"
            /\ ctorPc' = "thrown"
       ELSE /\ ctorPc' = "strides"
            /\ UNCHANGED thrown
  /\ UNCHANGED << grid_dimension, meter_dimension, gd_check, m_XStride,
                  harnessVars, complexVars, htildeVars, seedVars, meshVars >>

\* m_XStride = grid_dimension + 1; and the rest of the construction
CtorSetStrides ==
  /\ ctorPc = "strides"
  /\ m_XStride' = grid_dimension + 1
  /\ ctorPc' = "constructed"
  /\ UNCHANGED << grid_dimension, meter_dimension, gd_check, thrown,
                  harnessVars, complexVars, htildeVars, seedVars, meshVars >>

CtorNext ==
  \/ CtorGridLoop
  \/ CtorGridLoopExit
  \/ CtorDxDzCheck
  \/ CtorSetStrides

CtorSpec == CtorInit /\ [][CtorNext]_vars

\* ------------------------------------------------------------------------
\* Complex (Complex.cpp) and WaterFFT::HTilde
\* ------------------------------------------------------------------------
Complex(real, imaginary) == [re |-> real, im |-> imaginary]

\* the float NaN (0 / 0, 0 * inf, sqrt of a negative number); every other
\* float of the model is an integer
NaN == -99999
\* float negation and multiplication: NaN propagates
FNeg(a) == IF a = NaN THEN NaN ELSE 0 - a
FMul(a, b) == IF a = NaN \/ b = NaN THEN NaN ELSE a * b

\* Complex::operator+
ComplexAdd(lhs, rhs) == Complex(lhs.re + rhs.re, lhs.im + rhs.im)

\* Complex::operator*(const Complex &)
ComplexMul(lhs, rhs) ==
  Complex(lhs.re * rhs.re - lhs.im * rhs.im,
          lhs.re * rhs.im + lhs.im * rhs.re)

\* Complex::Conjugate
Conjugate(c) == Complex(c.re, FNeg(c.im))

\* Complex::operator-
ComplexSub(lhs, rhs) == Complex(lhs.re - rhs.re, lhs.im - rhs.im)

\* the compound operators, statement by statement. rhs is a reference: when
\* the argument is *this itself (is_this) it reads what the statements
\* before have written.
\* Complex::operator+=
PlusAssign(this, arg, is_this) ==
  LET rhs0 == IF is_this THEN this ELSE arg
      this1 == [this EXCEPT !.re = @ + rhs0.re]
      rhs1 == IF is_this THEN this1 ELSE arg
  IN [this1 EXCEPT !.im = @ + rhs1.im]

\* Complex::operator-=
MinusAssign(this, arg, is_this) ==
  LET rhs0 == IF is_this THEN this ELSE arg
      this1 == [this EXCEPT !.re = @ - rhs0.re]
      rhs1 == IF is_this THEN this1 ELSE arg
  IN [this1 EXCEPT !.im = @ - rhs1.im]

\* operator*= that assigns m_Real before it computes m_Imaginary
TimesAssign_RealFirst(this, arg, is_this) ==
  LET rhs0 == IF is_this THEN this ELSE arg
      this1 == [this EXCEPT !.re = this.re * rhs0.re - this.im * rhs0.im]
      rhs1 == IF is_this THEN this1 ELSE arg
  IN [this1 EXCEPT !.im = this1.re * rhs1.im + this1.im * rhs1.re]

\* Complex::operator*=(const Complex &)
TimesAssign(this, arg, is_this) ==
  LET rhs0 == IF is_this THEN this ELSE arg
      new_real == this.re * rhs0.re - this.im * rhs0.im
      this1 == [this EXCEPT !.im = this.re * rhs0.im + this.im * rhs0.re]
  IN [this1 EXCEPT !.re = new_real]

\* glm::length(k) squared
LengthSquared(v) == v[1] * v[1] + v[2] * v[2]

\* WaterFFT::DispersionRelation, in units of w_0: the n with
\* n * w_0 <= sqrt(m_Gravity * |k|) < (n + 1) * w_0
DispersionRelation(kv) ==
  CHOOSE n \in 0..200 :
    /\ n * n * n * n <= DispersionScale * LengthSquared(kv)
    /\ DispersionScale * LengthSquared(kv) < (n + 1) * (n + 1) * (n + 1) * (n + 1)

\* float omega_t = dispersion * time, for time a multiple of a quarter of
\* W0Period: the product of the real numbers is a whole number of quarter
\* turns, and the float lies a rounding off it. The product 0 is exact; any
\* other float is a rational number and so no multiple of pi / 2.
QuarterTurns(n_w0, t) == ((n_w0 * t) \div (W0Period \div 4)) % 4
Roundings(n_w0, t) ==
  IF n_w0 * t = 0 THEN {0} ELSE ((0 - MaxRounding)..MaxRounding) \ {0}

\* cos and sin of the float omega_t, to first order in the rounding
cos(n_w0, t, rounding) ==
  TrigUnit * << 1, 0, -1, 0 >>[QuarterTurns(n_w0, t) + 1]
    - rounding * << 0, 1, 0, -1 >>[QuarterTurns(n_w0, t) + 1]
sin(n_w0, t, rounding) ==
  TrigUnit * << 0, 1, 0, -1 >>[QuarterTurns(n_w0, t) + 1]
    + rounding * << 1, 0, -1, 0 >>[QuarterTurns(n_w0, t) + 1]

\* WaterFFT::HTilde
HTilde(h0, h0_conjugate, kv, t, rounding) ==
  LET dispersion == DispersionRelation(kv)
      cos_omega_t == cos(dispersion, t, rounding)
      sin_omega_t == sin(dispersion, t, rounding)
      e_1 == Complex(cos_omega_t, sin_omega_t)
      e_2 == Complex(0 - cos_omega_t, 0 - sin_omega_t)
      term1 == ComplexMul(h0, e_1)
      term2 == ComplexMul(h0_conjugate, e_2)
  IN ComplexAdd(term1, term2)

Seeds == { Complex(a, b) : a \in (0 - MaxSeed)..MaxSeed,
                            b \in (0 - MaxSeed)..MaxSeed }
Wavevectors == ((0 - MaxK)..MaxK) \X ((0 - MaxK)..MaxK)
Times == { (W0Period \div 4) * q : q \in 0..MaxQuarterPeriods }

HTildeInit ==
  /\ htildePc = "call"
  /\ htilde0 \in Seeds
  /\ htilde0_conjugate \in Seeds
  /\ k \in Wavevectors
  /\ time \in Times
  /\ htilde = Complex(0, 0)
  /\ omega_t_rounding = 0
  /\ HarnessInit
  /\ ComplexIdle
  /\ CtorIdle
  /\ SeedIdle
  /\ MeshIdle

\* Complex htilde = HTilde(htilde0, htilde0_conj, k, time);
HTildeCall ==
  /\ htildePc = "call"
  /\ \E rounding \in Roundings(DispersionRelation(k), time) :
       /\ omega_t_rounding' = rounding
       /\ htilde' = HTilde(htilde0, htilde0_conjugate, k, time, rounding)
  /\ htildePc' = "done"
  /\ UNCHANGED << htilde0, htilde0_conjugate, k, time, harnessVars,
                  complexVars, ctorVars, seedVars, meshVars >>

HTildeNext == HTildeCall

HTildeSpec == HTildeInit /\ [][HTildeNext]_vars

\* ------------------------------------------------------------------------
\* One call of a member function of Complex
\* ------------------------------------------------------------------------
ComplexInit ==
  /\ complexPc = "call"
  /\ thisBefore \in Seeds
  /\ argument \in Seeds
  /\ aliased = FALSE
  /\ op = "none"
  /\ thisAfter = thisBefore
  /\ returned = Complex(0, 0)
  /\ HarnessInit
  /\ CtorIdle
  /\ HTildeIdle
  /\ SeedIdle
  /\ MeshIdle

\* Complex::Conjugate
ConjugateCall ==
  /\ complexPc = "call"
  /\ op' = "Conjugate"
  /\ returned' = Conjugate(thisBefore)
  /\ complexPc' = "done"
  /\ UNCHANGED << thisBefore, argument, aliased, thisAfter, harnessVars,
                  ctorVars, htildeVars, seedVars, meshVars >>

\* Complex::operator+
OperatorPlus ==
  /\ complexPc = "call"
  /\ op' = "+"
  /\ returned' = ComplexAdd(thisBefore, argument)
  /\ complexPc' = "done"
  /\ UNCHANGED << thisBefore, argument, aliased, thisAfter, harnessVars,
                  ctorVars, htildeVars, seedVars, meshVars >>

\* Complex::operator-
OperatorMinus ==
  /\ complexPc = "call"
  /\ op' = "-"
  /\ returned' = ComplexSub(thisBefore, argument)
  /\ complexPc' = "done"
  /\ UNCHANGED << thisBefore, argument, aliased, thisAfter, harnessVars,
                  ctorVars, htildeVars, seedVars, meshVars >>

\* Complex::operator*(const Complex &)
OperatorTimes ==
  /\ complexPc = "call"
  /\ op' = "*"
  /\ returned' = ComplexMul(thisBefore, argument)
  /\ complexPc' = "done"
  /\ UNCHANGED << thisBefore, argument, aliased, thisAfter, harnessVars,
                  ctorVars, htildeVars, seedVars, meshVars >>

\* Complex::operator+=, with another object or with *this itself as
\* the argument; the reference returned is *this
OperatorPlusAssign ==
  /\ complexPc = "call"
  /\ op' = "+="
  /\ \E is_this \in BOOLEAN :
       /\ aliased' = is_this
       /\ thisAfter' = PlusAssign(thisBefore, argument, is_this)
       /\ returned' = PlusAssign(thisBefore, argument, is_this)
  /\ complexPc' = "done"
  /\ UNCHANGED << thisBefore, argument, harnessVars, ctorVars, htildeVars,
                  seedVars, meshVars >>

\* Complex::operator-=, with another object or with *this itself as
\* the argument; the reference returned is *this
OperatorMinusAssign ==
  /\ complexPc = "call"
  /\ op' = "-="
  /\ \E is_this \in BOOLEAN :
       /\ aliased' = is_this
       /\ thisAfter' = MinusAssign(thisBefore, argument, is_this)
       /\ returned' = MinusAssign(thisBefore, argument, is_this)
  /\ complexPc' = "done"
  /\ UNCHANGED << thisBefore, argument, harnessVars, ctorVars, htildeVars,
                  seedVars, meshVars >>

\* Complex::operator*=(const Complex &), with another object or with *this itself as
\* the argument; the reference returned is *this
OperatorTimesAssign ==
  /\ complexPc = "call"
  /\ op' = "*="
  /\ \E is_this \in BOOLEAN :
       /\ aliased' = is_this
       /\ thisAfter' = TimesAssign(thisBefore, argument, is_this)
       /\ returned' = TimesAssign(thisBefore, argument, is_this)
  /\ complexPc' = "done"
  /\ UNCHANGED << thisBefore, argument, harnessVars, ctorVars, htildeVars,
                  seedVars, meshVars >>

ComplexNext ==
  \/ ConjugateCall
  \/ OperatorPlus
  \/ OperatorMinus
  \/ OperatorTimes
  \/ OperatorPlusAssign
  \/ OperatorMinusAssign
  \/ OperatorTimesAssign

ComplexSpec == ComplexInit /\ [][ComplexNext]_vars

\* ------------------------------------------------------------------------
\* Claims about the constructor and about HTilde
\* ------------------------------------------------------------------------
IsPowerOfTwo(n) == \E e \in 0..30 : n = 2 ^ e
CtorFinished == ctorPc \in {"thrown", "constructed"}

\* C8: the constructor throws INVALID_GRID_DIM for every grid_dimension that
\* is not a power of two, 0 included, and for no power of two.
C8_InvalidGridDimIffNotPowerOfTwo ==
  CtorFinished =>
    (thrown = "INVALID_GRID_DIM" <=> ~IsPowerOfTwo(grid_dimension))

\* C9: for a power-of-two grid_dimension the constructor throws SMALL_DX_DZ
\* whenever meter_dimension / grid_dimension < 0.02, whatever else the
\* object's memory holds.
C9_SmallDxDzFromArguments ==
  (CtorFinished /\ IsPowerOfTwo(grid_dimension)
     /\ meter_dimension < MinDxDzCm * grid_dimension)
    => thrown = "SMALL_DX_DZ"

\* C10: HTilde(s, sConj, k, 0) = s + sConj, and at every time the result is
\* s * e + sConj * Conjugate(e) for e = (cos wt, sin wt).
C10_HTildeAtTimeZeroIsSum ==
  htildePc = "done" =>
    /\ time = 0 =>
         htilde = Complex(TrigUnit * (htilde0.re + htilde0_conjugate.re),
                          TrigUnit * (htilde0.im + htilde0_conjugate.im))
    /\ LET e == Complex(cos(DispersionRelation(k), time, omega_t_rounding),
                        sin(DispersionRelation(k), time, omega_t_rounding))
       IN htilde = ComplexAdd(ComplexMul(htilde0, e),
                              ComplexMul(htilde0_conjugate, Conjugate(e)))

\* ------------------------------------------------------------------------
\* The seeds of one grid cell: WaterFFT::InitializeVertexBuffer, HTilde0,
\* PhillipsSpectrum (WaterFFT.cpp) and NormalComplexRandom (Random.h).
\* Wavevectors are counted in units of TAU / (2 * m_XLength), so that
\* n = x - m_fft_XStride / 2.0f is the integer 2 * x - m_fft_XStride.
\* ------------------------------------------------------------------------
\* RAND_MAX of <stdlib.h>: an odd number (0x7fff in the C runtime the
\* project is built with)
RAND_MAX == 2 * RandHalf + 1

\* Complex::operator*(float)
ComplexScale(c, f) == Complex(FMul(c.re, f), FMul(c.im, f))

\* sqrt of a float: NaN for NaN and for negative numbers
sqrt(x) ==
  IF x = NaN \/ x < 0 THEN NaN ELSE CHOOSE r \in 0..x : r * r = x

\* k_magnitude < EPSILON, for a domain shorter than TAU / (2 * EPSILON)
\* metres: only the zero wavevector is that short
BelowEpsilon(kv) == LengthSquared(kv) = 0

\* glm::dot
Dot(u, v) == u[1] * v[1] + u[2] * v[2]

\* PhillipsSpectrum without its early return for a short wavevector
PhillipsSpectrum_NoEarlyReturn(kv) ==
  IF LengthSquared(kv) * LengthSquared(m_Wind) = 0 THEN NaN
  ELSE m_Amplitude * Dot(kv, m_Wind) * Dot(kv, m_Wind)

\* WaterFFT::PhillipsSpectrum.  Past the early return the value is
\* m_Amplitude * factor2 * k_dot_winddir^2 * additional_factor, where
\* k_dot_winddir = dot(k / |k|, m_Wind / |m_Wind|) is NaN when a length is
\* zero; factor2 and additional_factor are positive and the spectrum is
\* kept in units of factor2 * additional_factor / (|k|^2 * |m_Wind|^2).
PhillipsSpectrum(kv) ==
  IF BelowEpsilon(kv) THEN 0
  ELSE IF LengthSquared(kv) * LengthSquared(m_Wind) = 0 THEN NaN
  ELSE m_Amplitude * Dot(kv, m_Wind) * Dot(kv, m_Wind)

\* x1 = 2.0f * UniformRandom() - 1.0f for rand() = r, in units of 1 / RAND_MAX
UniformRandom(r) == 2 * r - RAND_MAX

\* the pairs of rand() values that end the do .. while (w >= 1.0f) loop
AcceptedDraws ==
  { d \in (0..RAND_MAX) \X (0..RAND_MAX) :
      LengthSquared(<< UniformRandom(d[1]), UniformRandom(d[2]) >>)
        < RAND_MAX * RAND_MAX }

\* NormalComplexRandom for the accepted pair d: (x1 * w, x2 * w) with
\* w = sqrt(-2 log(w) / w), positive for 0 < w < 1 (the result is kept in
\* units of it) and infinite for w = 0, where x * w = 0 * inf is NaN
NormalComplexRandom(d) ==
  LET x1 == UniformRandom(d[1])
      x2 == UniformRandom(d[2])
      w == x1 * x1 + x2 * x2
  IN IF w = 0 THEN Complex(NaN, NaN) ELSE Complex(x1, x2)

\* WaterFFT::HTilde0, for the draw d of its NormalComplexRandom() call
HTilde0(kv, d) ==
  LET spectrum == PhillipsSpectrum(kv)
      multiplicand == sqrt(IF spectrum = NaN THEN NaN ELSE spectrum \div 2)
      multiplier == NormalComplexRandom(d)
  IN ComplexScale(multiplier, multiplicand)

\* glm::vec2 k(kx, kz) of the cell c of a grid of n_fft cells a side
CellK(n_fft, c) == << 2 * c[1] - n_fft, 2 * c[2] - n_fft >>

\* unary minus of glm::vec2
Neg(v) == << 0 - v[1], 0 - v[2] >>

SeedGrids == { n \in 1..MaxSeedGrid : \E e \in 0..30 : n = 2 ^ e }
Winds == ((0 - MaxWind)..MaxWind) \X ((0 - MaxWind)..MaxWind)
Amplitudes == { 2 * a * a : a \in 0..MaxAmplitudeRoot }

SeedInit ==
  /\ seedPc = "cell"
  /\ m_fft_XStride \in SeedGrids
  /\ cell \in (0..(m_fft_XStride - 1)) \X (0..(m_fft_XStride - 1))
  /\ m_Wind \in Winds
  /\ m_Amplitude \in Amplitudes
  /\ m_VertexExtra = << >>
  /\ m_MirrorHTilde0 = << >>
  /\ HarnessInit
  /\ ComplexIdle
  /\ CtorIdle
  /\ HTildeIdle
  /\ MeshIdle

\* the body of the loops of InitializeVertexBuffer for one cell with
\* z < m_fft_ZStride and x < m_fft_XStride: two calls of HTilde0, each with
\* its own random draw
InitializeVertexExtra ==
  /\ seedPc = "cell"
  /\ \E d1 \in AcceptedDraws, d2 \in AcceptedDraws :
       LET kv == CellK(m_fft_XStride, cell)
           htilde0_vertex == HTilde0(kv, d1)
           htilde0_conjugate_vertex == Conjugate(HTilde0(Neg(kv), d2))
       IN m_VertexExtra' = [m_HTilde0 |-> htilde0_vertex,
                            m_HTilde0Conjugate |-> htilde0_conjugate_vertex]
  /\ seedPc' = "done"
  /\ UNCHANGED << m_fft_XStride, cell, m_Wind, m_Amplitude, m_MirrorHTilde0,
                  harnessVars, complexVars, ctorVars, htildeVars, meshVars >>

\* the cell whose wavevector is -k for the k of the cell c
MirrorCell(n_fft, c) == << n_fft - c[1], n_fft - c[2] >>
OnGrid(n_fft, c) == c[1] \in 0..(n_fft - 1) /\ c[2] \in 0..(n_fft - 1)

\* the same body for the cell of the wavevector -k, when the loops reach
\* it: its htilde0_vertex comes from a call of HTilde0 with a draw of its
\* own; the cell of the zero wavevector is its own mirror and is pushed once
InitializeMirrorExtra ==
  /\ seedPc = "done"
  /\ OnGrid(m_fft_XStride, MirrorCell(m_fft_XStride, cell))
  /\ IF MirrorCell(m_fft_XStride, cell) = cell
       THEN m_MirrorHTilde0' = m_VertexExtra.m_HTilde0
       ELSE \E d1 \in AcceptedDraws :
              LET kv == CellK(m_fft_XStride, MirrorCell(m_fft_XStride, cell))
                  htilde0_vertex == HTilde0(kv, d1)
              IN m_MirrorHTilde0' = htilde0_vertex
  /\ seedPc' = "mirrored"
  /\ UNCHANGED << m_fft_XStride, cell, m_Wind, m_Amplitude, m_VertexExtra,
                  harnessVars, complexVars, ctorVars, htildeVars, meshVars >>

SeedNext == InitializeVertexExtra \/ InitializeMirrorExtra

SeedSpec == SeedInit /\ [][SeedNext]_vars

\* C11: the seed of the zero wavevector is exactly zero for every wind,
\* amplitude and random draw, so the cell (N/2, N/2) of a grid of even
\* dimension N stores a zero seed pair.
C11_ZeroWavevectorSeedIsZero ==
  seedPc = "done" =>
    /\ BelowEpsilon(CellK(m_fft_XStride, cell)) =>
         /\ m_VertexExtra.m_HTilde0 = Complex(0, 0)
         /\ m_VertexExtra.m_HTilde0Conjugate = Complex(0, 0)
    /\ (m_fft_XStride % 2 = 0
          /\ cell = << m_fft_XStride \div 2, m_fft_XStride \div 2 >>) =>
         m_VertexExtra = [m_HTilde0 |-> Complex(0, 0),
                          m_HTilde0Conjugate |-> Complex(0, 0)]

C11_Witness ==
  /\ seedPc = "done"
  /\ m_fft_XStride = 2
  /\ cell = << 1, 1 >>
  /\ m_Wind # << 0, 0 >>
  /\ m_Amplitude > 0
  /\ m_VertexExtra.m_HTilde0 = Complex(0, 0)

\* ------------------------------------------------------------------------
\* One WaterFFT object called from one thread: the vertex arrays written by
\* InitializeVertexBuffer and UpdateFFT, SwapBuffers, the intensity map and
\* the point queries.
\*   positions m_Px, m_Pz   in units of 1 / (2 * m_fft_XStride) metres
\*   heights m_Py           in units of EPSILON times the transform's unit
\*   intensities            in units of EPSILON
\*   query locations, m_Xt  in units of 1 / LocDen grid units
\* ------------------------------------------------------------------------
\* 1.0f / EPSILON
InvEpsilon == 10000
\* the largest pixel value, the divisor of GetIntensity
MaxPixel == 255
LocDen == 2 * LocRes

Vertex(x, y, z, nx, ny, nz) ==
  [m_Px |-> x, m_Py |-> y, m_Pz |-> z, m_Nx |-> nx, m_Ny |-> ny, m_Nz |-> nz]

\* a length in metres, in the unit of the positions
Metres(w, len) == len * 2 * w.m_fft_XStride

\* start_x = m_XLength * n / m_fft_XStride with n = x - m_fft_XStride / 2.0f
StartPosition(n_fft, len, x) == len * (2 * x - n_fft)

\* the vertex arrays InitializeVertexBuffer fills, row by row
InitialVertices(n_fft, len) ==
  [i \in 1..((n_fft + 1) * (n_fft + 1)) |->
     LET x == (i - 1) % (n_fft + 1)
         z == (i - 1) \div (n_fft + 1)
     IN Vertex(StartPosition(n_fft, len, x), 0, StartPosition(n_fft, len, z),
               0, 1, 0)]

VertexExtra(ox, oy, oz, h0, h0_conjugate) ==
  [m_Ox |-> ox, m_Oy |-> oy, m_Oz |-> oz, m_HTilde0 |-> h0,
   m_HTilde0Conjugate |-> h0_conjugate]

\* the value one call of HTilde0 returned while the cell c of a grid of
\* n_fft cells a side was set up: zero for the zero wavevector, else some
\* number that depends on the cell and on the call
SeedOutcome(n_fft, c, call) ==
  IF CellK(n_fft, c) = << 0, 0 >> THEN Complex(0, 0)
  ELSE Complex(((c[1] + 2 * c[2] + call) % 3) - 1,
               ((2 * c[1] + c[2] + call) % 3) - 1)

\* the vertex extras InitializeVertexBuffer pushes, one for every cell with
\* z < m_fft_ZStride and x < m_fft_XStride
InitialVertexExtras(n_fft, len) ==
  [i \in 1..(n_fft * n_fft) |->
     LET x == (i - 1) % n_fft
         z == (i - 1) \div n_fft
     IN VertexExtra(StartPosition(n_fft, len, x), 0,
                    StartPosition(n_fft, len, z),
                    SeedOutcome(n_fft, << x, z >>, 0),
                    Conjugate(SeedOutcome(n_fft, << x, z >>, 1)))]

\* the loop of InitializeIndexBuffer from its turn with the value i on
RECURSIVE InitializeIndexBufferLoop(_, _, _, _)
InitializeIndexBufferLoop(m_IndexBuffer, i, limit, stride) ==
  IF ~(i < limit) THEN m_IndexBuffer
  ELSE
    LET first == << i, i + 1, i + stride >>
        i_ == i + 1
        second == << i_, i_ + stride, i_ + stride - 1 >>
        vertices_left == (i_ + 1) % stride
    IN InitializeIndexBufferLoop(m_IndexBuffer \o first \o second,
                                 IF vertices_left = 0 THEN i_ + 1 ELSE i_,
                                 limit, stride)

\* InitializeIndexBuffer that also starts quads in the last row
InitializeIndexBuffer_AllRows(num_verts, stride) ==
  InitializeIndexBufferLoop(<< >>, 0, num_verts - 1, stride)

\* WaterFFT::InitializeIndexBuffer
InitializeIndexBuffer(num_verts, stride) ==
  LET limit == num_verts - stride
  IN InitializeIndexBufferLoop(<< >>, 0, limit, stride)

Offset(x, y, z, w) == [m_Ox |-> x, m_Oy |-> y, m_Oz |-> z, m_Ow |-> w]

\* WaterFFT::InitializeOffsetBuffer, offsets in metres
InitializeOffsetBuffer(expansion, len) ==
  [i \in 1..(expansion * expansion) |->
     LET x == (i - 1) % expansion
         z == (i - 1) \div expansion
     IN Offset(x * len, 0, z * len, 1)]

\* m_IMap == nullptr
NullIMap ==
  [allocated |-> FALSE, m_Data |-> << >>, m_Width |-> 0, m_Height |-> 0,
   m_MaxX |-> 0, m_MaxY |-> 0]

\* the object the constructor of WaterFFT leaves
WaterFFT(grid_dim, meter_dim, expansion) ==
  [m_HeightScale |-> 1, m_DisplaceScale |-> 1,
   m_XLength |-> meter_dim, m_ZLength |-> meter_dim,
   m_IMap |-> NullIMap,
   m_XStride |-> grid_dim + 1, m_ZStride |-> grid_dim + 1,
   m_NumVerts |-> (grid_dim + 1) * (grid_dim + 1),
   m_fft_XStride |-> grid_dim, m_fft_ZStride |-> grid_dim,
   m_VertexBufferA |-> InitialVertices(grid_dim, meter_dim),
   m_VertexBufferB |-> InitialVertices(grid_dim, meter_dim),
   m_VertexExtrasBuffer |-> InitialVertexExtras(grid_dim, meter_dim),
   m_IndexBuffer |->
     InitializeIndexBuffer((grid_dim + 1) * (grid_dim + 1), grid_dim + 1),
   m_OffsetBuffer |-> InitializeOffsetBuffer(expansion, meter_dim),
   m_ReadBuffer |-> "A", m_WriteBuffer |-> "B"]

\* *pointer for a pointer to one of the two vertex arrays
Deref(w, pointer) ==
  IF pointer = "A" THEN w.m_VertexBufferA ELSE w.m_VertexBufferB

\* the real part the transforms leave in element i of m_HTildeOut (c = 1),
\* m_HTildeSlopeXOut (2), m_HTildeSlopeZOut (3), m_HTildeDisplaceXOut (4)
\* and m_HTildeDisplaceZOut (5) for the frame at time t: some number that
\* depends on all three
fftwf_execute(c, t, i) == ((c * (t + 1) + (c + 2) * i + t * i) % 5) - 2

\* Lerp and QuadLerp, with t given as t_num / den
Lerp(a, b, t_num, den) == a + ((b - a) * t_num) \div den
QuadLerp(a, b, c, d, tx, ty, den) ==
  Lerp(Lerp(a, b, tx, den), Lerp(c, d, tx, den), ty, den)

Min(a, b) == IF a < b THEN a ELSE b

\* IntensityMap::GetIntensity(x_num / den, z_num / den) of a decoded image
GetIntensity(imap, x_num, z_num, den) ==
  LET xi0 == (x_num * imap.m_Width) \div den
      xi1 == Min(xi0 + 1, imap.m_MaxX)
      yi0 == (z_num * imap.m_Height) \div den
      yi1 == Min(yi0 + 1, imap.m_MaxY)
      x_t == x_num * imap.m_Width - xi0 * den
      y_t == z_num * imap.m_Height - yi0 * den
      ai == yi0 * imap.m_Width + xi0
      bi == yi0 * imap.m_Width + xi1
      ci == yi1 * imap.m_Width + xi0
      di == yi1 * imap.m_Width + xi1
      a == (imap.m_Data[ai + 1] * InvEpsilon) \div MaxPixel
      b == (imap.m_Data[bi + 1] * InvEpsilon) \div MaxPixel
      c == (imap.m_Data[ci + 1] * InvEpsilon) \div MaxPixel
      d == (imap.m_Data[di + 1] * InvEpsilon) \div MaxPixel
  IN QuadLerp(a, b, c, d, x_t, y_t, den)

\* the value of m_IMap->GetIntensity in UpdateFFT; garbage is the pixel a
\* read through the null m_Data of an undecoded image finds
SampleIntensity(imap, x, z, n_fft, garbage) ==
  IF imap.m_Data = << >>
    THEN (garbage * InvEpsilon) \div MaxPixel
    ELSE GetIntensity(imap, x, z, n_fft)

\* a loop that leaves the sign alone at the end of a row
SignAfterRow_Kept(sign) == sign

\* the sign *= -1 that follows the inner loop
SignAfterRow(sign) == 0 - sign

\* the loops of UpdateFFT over the transforms' output: from cell (x, z) on,
\* with the values the loop variables have there
RECURSIVE UpdateFFTLoop(_, _, _, _, _, _, _, _, _)
UpdateFFTLoop(buffer, w, t, garbage, z, x, vertex_index_, fft_vertex_index, sign) ==
  IF ~(z < w.m_fft_ZStride) THEN buffer
  ELSE IF ~(x < w.m_fft_XStride)
    THEN UpdateFFTLoop(buffer, w, t, garbage, z + 1, 0, vertex_index_ + 1,
                       fft_vertex_index, SignAfterRow(sign))
  ELSE
    LET n_fft == w.m_fft_XStride
        out(c) == fftwf_execute(c, t, fft_vertex_index) * sign
        x_location == w.m_VertexExtrasBuffer[fft_vertex_index + 1].m_Ox
        z_location == w.m_VertexExtrasBuffer[fft_vertex_index + 1].m_Oz
        sampled == SampleIntensity(w.m_IMap, x, z, n_fft, garbage)
        intensity ==
          IF ~w.m_IMap.allocated THEN InvEpsilon
          ELSE IF sampled = 0 THEN 1 ELSE sampled
        position_y_factor == w.m_HeightScale * intensity
        normal_y_factor == (InvEpsilon \div w.m_HeightScale) \div intensity
        vert == Vertex(x_location + w.m_DisplaceScale * out(4),
                       out(1) * position_y_factor,
                       z_location + w.m_DisplaceScale * out(5),
                       0 - out(2), 1 * normal_y_factor, 0 - out(3))
    IN UpdateFFTLoop([buffer EXCEPT ![vertex_index_ + 1] = vert], w, t,
                     garbage, z, x + 1, vertex_index_ + 1,
                     fft_vertex_index + 1, 0 - sign)

\* the loop of UpdateTailEdge from its turn i on
RECURSIVE UpdateTailEdgeLoop(_, _, _, _, _, _, _, _)
UpdateTailEdgeLoop(buffer, w, i, up_vertex_index, og_vertex_index, d_vertex_index, x_offset, z_offset) ==
  IF ~(i < w.m_ZStride - 1) THEN buffer
  ELSE
    LET og_vert == buffer[og_vertex_index + 1]
        update_vert == Vertex(og_vert.m_Px + x_offset, og_vert.m_Py,
                              og_vert.m_Pz + z_offset,
                              og_vert.m_Nx, og_vert.m_Ny, og_vert.m_Nz)
    IN UpdateTailEdgeLoop([buffer EXCEPT ![up_vertex_index + 1] = update_vert],
                          w, i + 1, up_vertex_index + d_vertex_index,
                          og_vertex_index + d_vertex_index, d_vertex_index,
                          x_offset, z_offset)

\* UpdateTailEdge that steps both edges by one vertex
UpdateTailEdge_StepOne(buffer, w, edge) ==
  IF edge = 0
    THEN UpdateTailEdgeLoop(buffer, w, 0, w.m_XStride - 1, 0, 1,
                            Metres(w, w.m_XLength), 0)
    ELSE UpdateTailEdgeLoop(buffer, w, 0, w.m_XStride * (w.m_ZStride - 1), 0,
                            1, 0, Metres(w, w.m_ZLength))

\* WaterFFT::UpdateTailEdge
UpdateTailEdge(buffer, w, edge) ==
  IF edge = 0
    THEN UpdateTailEdgeLoop(buffer, w, 0, w.m_XStride - 1, 0, w.m_XStride,
                            Metres(w, w.m_XLength), 0)
    ELSE UpdateTailEdgeLoop(buffer, w, 0, w.m_XStride * (w.m_ZStride - 1), 0,
                            1, 0, Metres(w, w.m_ZLength))

\* the tail corner: the position of vertex 0 moved by both lengths
UpdateTailCorner(buffer, w) ==
  LET og_vert == buffer[1]
  IN [buffer EXCEPT ![w.m_NumVerts] =
        [@ EXCEPT !.m_Px = og_vert.m_Px + Metres(w, w.m_XLength),
                  !.m_Py = og_vert.m_Py,
                  !.m_Pz = og_vert.m_Pz + Metres(w, w.m_ZLength)]]

\* what UpdateFFT(t) leaves in *m_WriteBuffer
UpdatedVertices(w, t, garbage) ==
  LET looped == UpdateFFTLoop(Deref(w, w.m_WriteBuffer), w, t, garbage,
                              0, 0, 0, 0, 1)
      edge0 == UpdateTailEdge(looped, w, 0)
      edge1 == UpdateTailEdge(edge0, w, 1)
  IN UpdateTailCorner(edge1, w)

\* a store through the pointer that lands in both arrays
Store_Both(w, pointer, buffer) ==
  [w EXCEPT !.m_VertexBufferA = buffer, !.m_VertexBufferB = buffer]

\* the object with *pointer replaced by buffer
Store(w, pointer, buffer) ==
  IF pointer = "A" THEN [w EXCEPT !.m_VertexBufferA = buffer]
                   ELSE [w EXCEPT !.m_VertexBufferB = buffer]

MeshGrids == { n \in 1..MaxMeshGrid : \E e \in 0..30 : n = 2 ^ e }
\* domain lengths: the grid dimension, one more, and four times it
MeshLengths(n) == { n, n + 1, 4 * n }
Pixels == { 0, MaxPixel }
\* values an int member can hold before anything is assigned to it
UninitializedInt == { 1, 2 }

MeshInit ==
  /\ meshPc = "ready"
  /\ \E n \in MeshGrids : \E len \in MeshLengths(n) :
       water = WaterFFT(n, len, Expansion)
  /\ lastUpdate = NoUpdate
  /\ nullSampled = FALSE
  /\ location = << 0, 0 >>
  /\ result = NoResult
  /\ reads = {}
  /\ HarnessInit
  /\ ComplexIdle
  /\ CtorIdle
  /\ HTildeIdle
  /\ SeedIdle

\* the caller has no query result at hand after another call
DropResult ==
  /\ location' = << 0, 0 >>
  /\ result' = NoResult
  /\ reads' = {}

\* m_IMap points to an image whose m_Data is null
Undecoded(w) == w.m_IMap.allocated /\ w.m_IMap.m_Data = << >>

\* WaterFFT::Update(t), with no intensity map or a decoded one
Update ==
  /\ meshPc = "ready"
  /\ ~Undecoded(water)
  /\ \E t \in 0..MaxTime :
       /\ water' = Store(water, water.m_WriteBuffer,
                         UpdatedVertices(water, t, 0))
       /\ lastUpdate' = [buffer |-> water.m_WriteBuffer,
                         undecoded |-> FALSE, time |-> t]
  /\ DropResult
  /\ UNCHANGED << meshPc, nullSampled, harnessVars, complexVars, ctorVars,
                  htildeVars, seedVars >>

\* WaterFFT::Update(t) with an undecoded image: the reads of GetIntensity
\* through the null m_Data are undefined; here they find some pixel
UpdateUndecodedReads ==
  /\ meshPc = "ready"
  /\ Undecoded(water)
  /\ \E t \in 0..MaxTime, garbage \in Pixels :
       /\ water' = Store(water, water.m_WriteBuffer,
                         UpdatedVertices(water, t, garbage))
       /\ lastUpdate' = [buffer |-> water.m_WriteBuffer,
                         undecoded |-> TRUE, time |-> t]
  /\ nullSampled' = TRUE
  /\ DropResult
  /\ UNCHANGED << meshPc, harnessVars, complexVars, ctorVars, htildeVars,
                  seedVars >>

\* and here the first of them faults
UpdateUndecodedFaults ==
  /\ meshPc = "ready"
  /\ Undecoded(water)
  /\ meshPc' = "crashed"
  /\ nullSampled' = TRUE
  /\ DropResult
  /\ UNCHANGED << water, lastUpdate, harnessVars, complexVars, ctorVars,
                  htildeVars, seedVars >>

\* SwapBuffers that forgets the temporary
SwapBuffers_NoTemp ==
  /\ meshPc = "ready"
  /\ water' = [water EXCEPT !.m_ReadBuffer = water.m_WriteBuffer,
                            !.m_WriteBuffer = water.m_WriteBuffer]
  /\ DropResult
  /\ UNCHANGED << meshPc, lastUpdate, nullSampled, harnessVars, complexVars,
                  ctorVars, htildeVars, seedVars >>

\* WaterFFT::SwapBuffers
SwapBuffers ==
  /\ meshPc = "ready"
  /\ LET temp_ == water.m_ReadBuffer
     IN water' = [water EXCEPT !.m_ReadBuffer = water.m_WriteBuffer,
                               !.m_WriteBuffer = temp_]
  /\ DropResult
  /\ UNCHANGED << meshPc, lastUpdate, nullSampled, harnessVars, complexVars,
                  ctorVars, htildeVars, seedVars >>

\* IntensityMap::IntensityMap: stbi_load decodes an image of one pixel, or
\* fails, returns null and leaves the sizes unassigned
IntensityMap(decoded, pixel, unassigned) ==
  IF decoded
    THEN [allocated |-> TRUE, m_Data |-> << pixel >>, m_Width |-> 1,
          m_Height |-> 1, m_MaxX |-> 0, m_MaxY |-> 0]
    ELSE [allocated |-> TRUE, m_Data |-> << >>, m_Width |-> unassigned,
          m_Height |-> unassigned, m_MaxX |-> unassigned - 1,
          m_MaxY |-> unassigned - 1]

\* WaterFFT::UseIntensityMap: RemoveIntensityMap(); m_IMap = new ...
UseIntensityMap ==
  /\ meshPc = "ready"
  /\ \E decoded \in BOOLEAN, pixel \in Pixels, unassigned \in UninitializedInt :
       water' = [water EXCEPT
                   !.m_IMap = IntensityMap(decoded, pixel, unassigned)]
  /\ DropResult
  /\ UNCHANGED << meshPc, lastUpdate, nullSampled, harnessVars, complexVars,
                  ctorVars, htildeVars, seedVars >>

\* WaterFFT::RemoveIntensityMap
RemoveIntensityMap ==
  /\ meshPc = "ready"
  /\ water' = [water EXCEPT !.m_IMap = IF @.allocated THEN NullIMap ELSE @]
  /\ DropResult
  /\ UNCHANGED << meshPc, lastUpdate, nullSampled, harnessVars, complexVars,
                  ctorVars, htildeVars, seedVars >>

\* while (x_index_float < 0) x_index_float += x_max_index;
RECURSIVE WrapNegative(_, _)
WrapNegative(index_float, max_index) ==
  IF index_float < 0 THEN WrapNegative(index_float + max_index, max_index)
                     ELSE index_float

\* getting to an index that exists by clamping instead of wrapping
WrapIndex_Clamp(index_float, max_index) ==
  IF index_float >= max_index THEN max_index - 1
  ELSE IF index_float < 0 THEN 0
  ELSE index_float

\* one axis of LocationToMeshPosition: "getting to an index that exists in
\* our arrays" from x_index_float and x_max_index
WrapIndex(index_float, max_index) ==
  LET grids_to_offset == index_float \div max_index
      reduced == IF index_float >= max_index
                   THEN index_float - grids_to_offset * max_index
                   ELSE index_float
  IN WrapNegative(reduced, max_index)

\* LocationToMeshPosition with x_max_index = m_XStride
LocationToMeshPosition_MaxIsStride(w, loc) ==
  LET x_index_float ==
        WrapIndex(loc[1] + (w.m_XStride * LocDen) \div 2,
                  w.m_XStride * LocDen)
      z_index_float ==
        WrapIndex(loc[2] + (w.m_ZStride * LocDen) \div 2,
                  (w.m_ZStride - 1) * LocDen)
      x_index == x_index_float \div LocDen
      xt == x_index_float - x_index * LocDen
      z_index == z_index_float \div LocDen
      zt == z_index_float - z_index * LocDen
      vertex_index_ == z_index * w.m_XStride + x_index
  IN [m_VertexIndex |-> vertex_index_, m_Xt |-> xt, m_Zt |-> zt]

\* WaterFFT::LocationToMeshPosition
LocationToMeshPosition(w, loc) ==
  LET x_index_float ==
        WrapIndex(loc[1] + (w.m_XStride * LocDen) \div 2,
                  (w.m_XStride - 1) * LocDen)
      z_index_float ==
        WrapIndex(loc[2] + (w.m_ZStride * LocDen) \div 2,
                  (w.m_ZStride - 1) * LocDen)
      x_index == x_index_float \div LocDen
      xt == x_index_float - x_index * LocDen
      z_index == z_index_float \div LocDen
      zt == z_index_float - z_index * LocDen
      vertex_index_ == z_index * w.m_XStride + x_index
  IN [m_VertexIndex |-> vertex_index_, m_Xt |-> xt, m_Zt |-> zt]

\* GetLocationHeightFFT and GetLocationNormalFFT reading *m_WriteBuffer
QueryBuffer_Write(w) == w.m_WriteBuffer

\* the array GetLocationHeightFFT and GetLocationNormalFFT index
QueryBuffer(w) == w.m_ReadBuffer

\* the vertices with b and c exchanged
QuadIndices_Transposed(w, mp) ==
  << mp.m_VertexIndex, mp.m_VertexIndex + w.m_XStride,
     mp.m_VertexIndex + 1, mp.m_VertexIndex + w.m_XStride + 1 >>

\* the vertices a, b, c, d of GetLocationHeightFFT and GetLocationNormalFFT
QuadIndices(w, mp) ==
  << mp.m_VertexIndex, mp.m_VertexIndex + 1,
     mp.m_VertexIndex + w.m_XStride, mp.m_VertexIndex + w.m_XStride + 1 >>

\* what a read past the end of a vertex array finds
OutOfBounds == Vertex(NaN, NaN, NaN, NaN, NaN, NaN)

\* buffer[i] of a std::vector
At(buffer, i) ==
  IF i \in 0..(Len(buffer) - 1) THEN buffer[i + 1] ELSE OutOfBounds

\* the bilinear interpolation of both, times LocDen * LocDen
Interpolate(va, vb, vc, vd, mp) ==
  LET ab == va * LocDen + (vb - va) * mp.m_Xt
      cd == vc * LocDen + (vd - vc) * mp.m_Xt
  IN ab * LocDen + (cd - ab) * mp.m_Zt

\* WaterFFT::GetLocationHeightFFT
GetLocationHeightFFT(w, mp) ==
  LET buffer == Deref(w, QueryBuffer(w))
      q == QuadIndices(w, mp)
  IN Interpolate(At(buffer, q[1]).m_Py, At(buffer, q[2]).m_Py,
                 At(buffer, q[3]).m_Py, At(buffer, q[4]).m_Py, mp)

\* WaterFFT::GetLocationNormalFFT, before glm::normalize rescales it
GetLocationNormalFFT(w, mp) ==
  LET buffer == Deref(w, QueryBuffer(w))
      q == QuadIndices(w, mp)
  IN << Interpolate(At(buffer, q[1]).m_Nx, At(buffer, q[2]).m_Nx,
                    At(buffer, q[3]).m_Nx, At(buffer, q[4]).m_Nx, mp),
        Interpolate(At(buffer, q[1]).m_Ny, At(buffer, q[2]).m_Ny,
                    At(buffer, q[3]).m_Ny, At(buffer, q[4]).m_Ny, mp),
        Interpolate(At(buffer, q[1]).m_Nz, At(buffer, q[2]).m_Nz,
                    At(buffer, q[3]).m_Nz, At(buffer, q[4]).m_Nz, mp) >>

\* the vertices a point query at mp reads: << array, index >>
VertexReads(w, mp) ==
  { << QueryBuffer(w), QuadIndices(w, mp)[j] >> : j \in 1..4 }

\* the value of WaterFFT::HeightAtLocation(loc)
HeightAt(w, loc) == GetLocationHeightFFT(w, LocationToMeshPosition(w, loc))

Coordinates == ((0 - MaxLoc) * LocDen)..(MaxLoc * LocDen)
\* the query points: those on the two axes and on the two diagonals
Locations ==
  { loc \in Coordinates \X Coordinates :
      \/ loc[1] = 0
      \/ loc[2] = 0
      \/ loc[1] = loc[2]
      \/ loc[1] = 0 - loc[2] }

\* WaterFFT::HeightAtLocation; the caller uses up the result of a query
\* before it asks again
HeightAtLocation ==
  /\ meshPc = "ready"
  /\ reads = {}
  /\ \E loc \in Locations :
       LET mp == LocationToMeshPosition(water, loc)
       IN /\ location' = loc
          /\ result' = [m_Height |-> GetLocationHeightFFT(water, mp),
                        m_Normal |-> << 0, 0, 0 >>]
          /\ reads' = VertexReads(water, mp)
  /\ UNCHANGED << meshPc, water, lastUpdate, nullSampled, harnessVars,
                  complexVars, ctorVars, htildeVars, seedVars >>

\* WaterFFT::HeightNormalAtLocation
HeightNormalAtLocation ==
  /\ meshPc = "ready"
  /\ reads = {}
  /\ \E loc \in Locations :
       LET mp == LocationToMeshPosition(water, loc)
       IN /\ location' = loc
          /\ result' = [m_Height |-> GetLocationHeightFFT(water, mp),
                        m_Normal |-> GetLocationNormalFFT(water, mp)]
          /\ reads' = VertexReads(water, mp)
  /\ UNCHANGED << meshPc, water, lastUpdate, nullSampled, harnessVars,
                  complexVars, ctorVars, htildeVars, seedVars >>

MeshNext ==
  \/ Update
  \/ SwapBuffers
  \/ HeightAtLocation
  \/ HeightNormalAtLocation

\* a caller that updates, swaps and queries (main.cpp attaches no map)
MeshSpec == MeshInit /\ [][MeshNext]_vars

IMapNext ==
  \/ Update
  \/ UpdateUndecodedReads
  \/ UpdateUndecodedFaults
  \/ SwapBuffers
  \/ UseIntensityMap
  \/ RemoveIntensityMap

\* a caller that attaches and removes intensity maps between the frames
IMapSpec == MeshInit /\ [][IMapNext]_vars

\* ------------------------------------------------------------------------
\* Claims about the mesh, the double buffer's designation, the intensity
\* map and the point queries
\* ------------------------------------------------------------------------
\* the buffer the last Update wrote is the one now read
UpdatedAndSwapped == lastUpdate.buffer = water.m_ReadBuffer
\* a point query has just returned
Queried == reads # {}
ReadVertices == Deref(water, water.m_ReadBuffer)

\* C12: after Update and SwapBuffers the read buffer's last column is the
\* first column moved by (domainLength, 0, 0), its last row the first row
\* moved by (0, 0, domainLength), and its corner vertex is vertex 0 moved by
\* (domainLength, 0, domainLength).
C12_SeamPositions ==
  UpdatedAndSwapped =>
    LET v == ReadVertices
        n == water.m_fft_XStride
        stride == water.m_XStride
        len == Metres(water, water.m_XLength)
        Moved(up, og, dx, dz) ==
          /\ v[up + 1].m_Px = v[og + 1].m_Px + dx
          /\ v[up + 1].m_Py = v[og + 1].m_Py
          /\ v[up + 1].m_Pz = v[og + 1].m_Pz + dz
    IN /\ \A row \in 0..(n - 1) :
            Moved(row * stride + n, row * stride, len, 0)
       /\ \A col \in 0..(n - 1) : Moved(n * stride + col, col, 0, len)
       /\ Moved((n + 1) * (n + 1) - 1, 0, len, len)

C12_Witness ==
  /\ UpdatedAndSwapped
  /\ water.m_fft_XStride = 2
  /\ water.m_XLength = 3
  /\ ReadVertices[1].m_Px # StartPosition(2, 3, 0)
  /\ ReadVertices[1].m_Py # 0
  /\ ReadVertices[water.m_NumVerts].m_Py = ReadVertices[1].m_Py
  /\ ReadVertices[3].m_Py # ReadVertices[6].m_Py

\* C13: the height at a location equals the height at the location moved
\* by (domainLength, 0), whatever the grid dimension and the domain length.
C13_PeriodicInDomainLength ==
  Queried =>
    result.m_Height =
      HeightAt(water, << location[1] + water.m_XLength * LocDen,
                         location[2] >>)

\* C13, amended: the height at a location equals the height at the location
\* moved by (N, 0) for the grid dimension N, hence by (domainLength, 0) when
\* the domain length is a whole multiple of N.
C13_PeriodicInGridDimension ==
  Queried =>
    /\ result.m_Height =
         HeightAt(water, << location[1] + water.m_fft_XStride * LocDen,
                            location[2] >>)
    /\ water.m_XLength % water.m_fft_XStride = 0 =>
         result.m_Height =
           HeightAt(water, << location[1] + water.m_XLength * LocDen,
                              location[2] >>)

C13_Witness ==
  /\ Queried
  /\ UpdatedAndSwapped
  /\ water.m_fft_XStride = 2
  /\ water.m_XLength = 8
  /\ location[1] < 0 - 3 * LocRes
  /\ result.m_Height # 0

\* C14: after Update and SwapBuffers the height at a location is the
\* bilinear blend, weighted by the mesh position's fractions, of the heights
\* of the vertices index, index + 1, index + stride, index + stride + 1 of
\* the buffer that Update wrote.
C14_BilinearBlendOfWrittenBuffer ==
  (Queried /\ UpdatedAndSwapped) =>
    LET v == Deref(water, lastUpdate.buffer)
        mp == LocationToMeshPosition(water, location)
        i == mp.m_VertexIndex
        stride == water.m_XStride
        fx == mp.m_Xt
        fz == mp.m_Zt
    IN result.m_Height =
           (LocDen - fx) * (LocDen - fz) * v[i + 1].m_Py
         + fx * (LocDen - fz) * v[i + 2].m_Py
         + (LocDen - fx) * fz * v[i + stride + 1].m_Py
         + fx * fz * v[i + stride + 2].m_Py

C14_Witness ==
  /\ Queried
  /\ UpdatedAndSwapped
  /\ water.m_fft_XStride = 4
  /\ water.m_XLength = 16
  /\ location = << 0, 0 >>
  /\ reads = { << water.m_ReadBuffer, i >> : i \in {12, 13, 17, 18} }
  /\ LocationToMeshPosition(water, location).m_Xt > 0
  /\ LocationToMeshPosition(water, location).m_Zt > 0
  /\ result.m_Height # 0
  /\ water.m_VertexBufferA # water.m_VertexBufferB

\* C15: a point query changes no field of the WaterFFT object and reads
\* vertices of the read buffer only, none of the write buffer.
C15_QueriesArePureReads ==
  [][(~Queried /\ Queried') =>
       /\ water' = water
       /\ \A r \in reads' :
            /\ r[1] = water.m_ReadBuffer
            /\ r[1] # water.m_WriteBuffer
            /\ r[2] \in 0..(water.m_NumVerts - 1)]_vars

C15_Witness ==
  /\ Queried
  /\ lastUpdate.buffer = water.m_WriteBuffer
  /\ result.m_Normal # << 0, 0, 0 >>
  /\ Cardinality(reads) = 4

\* C16: after UseIntensityMap failed to decode its file, Update uses the
\* factor 1.0 for every vertex and never samples the null image data.
C16_FailedDecodeIsNoMap ==
  /\ ~nullSampled
  /\ meshPc # "crashed"
  /\ lastUpdate.undecoded =>
       \A i \in 1..water.m_NumVerts :
         Deref(water, lastUpdate.buffer)[i].m_Ny = 1

\* C17: the read and the write pointer always name the two different vertex
\* arrays, and SwapBuffers exchanges the two pointers and changes nothing
\* else, so that a second SwapBuffers restores the designation.
C17_SwapExchangesTwoBuffers ==
  /\ [](meshPc = "ready" =>
          /\ water.m_ReadBuffer # water.m_WriteBuffer
          /\ {water.m_ReadBuffer, water.m_WriteBuffer} = Buffers)
  /\ [][(water'.m_ReadBuffer # water.m_ReadBuffer
            \/ water'.m_WriteBuffer # water.m_WriteBuffer) =>
          water' = [water EXCEPT !.m_ReadBuffer = water.m_WriteBuffer,
                                 !.m_WriteBuffer = water.m_ReadBuffer]]_vars

C17_Witness ==
  /\ water.m_ReadBuffer = "B"
  /\ water.m_WriteBuffer = "A"
  /\ lastUpdate.buffer = "A"
  /\ water.m_VertexBufferA # water.m_VertexBufferB

\* C18: after an Update the normals of the written buffer are continuous
\* across the seam: each last-column vertex has the normal of the first
\* vertex of its row, each last-row vertex that of the first vertex of its
\* column, and the corner vertex that of vertex 0.
C18_SeamNormals ==
  lastUpdate.buffer # "none" =>
    LET v == Deref(water, lastUpdate.buffer)
        n == water.m_fft_XStride
        stride == water.m_XStride
        Same(up, og) ==
          /\ v[up + 1].m_Nx = v[og + 1].m_Nx
          /\ v[up + 1].m_Ny = v[og + 1].m_Ny
          /\ v[up + 1].m_Nz = v[og + 1].m_Nz
    IN /\ \A row \in 0..(n - 1) : Same(row * stride + n, row * stride)
       /\ \A col \in 0..(n - 1) : Same(n * stride + col, col)
       /\ Same((n + 1) * (n + 1) - 1, 0)

NoCallbackExecuting == \A t \in Threads : ~InCallback(t)

\* C21: whenever no release callback is executing, the renderer's vertex
\* pointer refers to the array designated read and not to the one designated
\* write; this holds from SetBuffers on, before Execute, and every callback
\* that swapped has published the new read pointer when it ends.
C21_RendererHoldsReadBuffer ==
  NoCallbackExecuting =>
    /\ m_VertexBuffer = m_ReadBuffer
    /\ m_VertexBuffer # m_WriteBuffer

\* after an odd number of swaps, outside the callback, the renderer holds
\* the array that was designated write at construction
C21_Witness ==
  /\ NoCallbackExecuting
  /\ swapCount = 1
  /\ m_VertexBuffer = "B"
  /\ pc["main"] = "render"

\* party t is inside m_CV.wait(lock) and the callback of the rendezvous it
\* arrived for has not run
BlockedInWait(t) == pc[t] = "b_wait" /\ arrivals[t] > callbackCount

\* C30: whenever no thread holds the barrier mutex the arrival counter is 1
\* or 2, and while the barrier is not knocked down it is 1 exactly when one
\* party is blocked in the condition wait and 2 exactly when none is.
C30_CounterTracksBlockedParty ==
  m_Mutex = "free" =>
    /\ 1 <= m_ThreadsLeft
    /\ m_ThreadsLeft <= TotalThreads
    /\ ~m_KnockedDown =>
         /\ m_ThreadsLeft = 1 <=>
              Cardinality({ t \in Threads : BlockedInWait(t) }) = 1
         /\ m_ThreadsLeft = 2 <=>
              Cardinality({ t \in Threads : BlockedInWait(t) }) = 0

\* ------------------------------------------------------------------------
\* The barrier after the knock-down
\* ------------------------------------------------------------------------
\* C28: once the barrier is knocked down it stays knocked down; every call of
\* WaitForAllThreads that reaches its test of m_KnockedDown afterwards
\* returns from there, leaving the arrival counter alone and running no
\* callback; and no callback and no swap happens again.
C28_KnockedDownForGood ==
  [][ m_KnockedDown =>
        /\ m_KnockedDown'
        /\ \A t \in Threads :
             (pc[t] = "b_check" /\ pc'[t] # "b_check") =>
                /\ pc'[t] = ReturnPc(t)
                /\ m_ThreadsLeft' = m_ThreadsLeft
                /\ callbackCount' = callbackCount
        /\ callbackCount' = callbackCount
        /\ swapCount' = swapCount ]_vars

\* ------------------------------------------------------------------------
\* The sign of the transforms' output
\* ------------------------------------------------------------------------
\* (-1)^n
MinusOneTo(n) == IF n % 2 = 0 THEN 1 ELSE -1

\* C23: after an Update at time t, for every cell (x, z) of the N by N grid
\* the vertex z * (N + 1) + x of the array the Update wrote holds the five
\* outputs of the transforms for cell z * N + x, each multiplied by
\* (-1)^(x + z): the height in m_Py, the slopes negated in m_Nx and m_Nz,
\* the displacements added to the rest position in m_Px and m_Pz.
C23_SignIsGridParity ==
  (lastUpdate.buffer # "none" /\ ~water.m_IMap.allocated) =>
    LET v == Deref(water, lastUpdate.buffer)
        n == water.m_fft_XStride
        t == lastUpdate.time
    IN \A x \in 0..(n - 1), z \in 0..(n - 1) :
         LET vert == v[z * (n + 1) + x + 1]
             out(c) == MinusOneTo(x + z) * fftwf_execute(c, t, z * n + x)
         IN /\ vert.m_Py = out(1) * water.m_HeightScale * InvEpsilon
            /\ vert.m_Nx = 0 - out(2)
            /\ vert.m_Nz = 0 - out(3)
            /\ vert.m_Px = StartPosition(n, water.m_XLength, x)
                             + water.m_DisplaceScale * out(4)
            /\ vert.m_Pz = StartPosition(n, water.m_ZLength, z)
                             + water.m_DisplaceScale * out(5)

\* an Update of a grid of two or more rows has written a height that is not
\* zero to a cell of odd parity in the first row and to one of even parity in
\* the second
C23_Witness ==
  /\ lastUpdate.buffer # "none"
  /\ water.m_fft_XStride >= 2
  /\ LET v == Deref(water, lastUpdate.buffer)
         n == water.m_fft_XStride
     IN /\ v[2].m_Py # 0
        /\ v[2].m_Py = (0 - fftwf_execute(1, lastUpdate.time, 1)) * InvEpsilon
        /\ v[(n + 1) + 2].m_Py # 0
        /\ v[(n + 1) + 2].m_Py
             = fftwf_execute(1, lastUpdate.time, n + 1) * InvEpsilon

\* ------------------------------------------------------------------------
\* What Update leaves alone, and the index buffer
\* ------------------------------------------------------------------------
VertexArrays(w) == << w.m_VertexBufferA, w.m_VertexBufferB >>
Designation(w) == << w.m_ReadBuffer, w.m_WriteBuffer >>
ConstructionData(w) ==
  << w.m_VertexExtrasBuffer, w.m_IndexBuffer, w.m_OffsetBuffer >>

\* C22: no call changes the contents of the array that is designated read
\* when it is made, the vertex extras (rest positions and both seeds of
\* every cell), the index buffer or the offset buffer, and a call that
\* changes a vertex array (an Update) leaves the read/write designation as
\* it is; so the seeds are those of construction after any sequence of
\* Update and SwapBuffers.
C22_UpdateWritesOnlyWriteBuffer ==
  /\ [][ /\ Deref(water', water.m_ReadBuffer)
             = Deref(water, water.m_ReadBuffer)
         /\ ConstructionData(water') = ConstructionData(water)
         /\ VertexArrays(water') # VertexArrays(water) =>
              Designation(water') = Designation(water) ]_vars
  /\ [](meshPc = "ready" =>
          water.m_VertexExtrasBuffer
            = InitialVertexExtras(water.m_fft_XStride, water.m_XLength))

\* Update, SwapBuffers, Update: both arrays have been written, and a seed
\* that is not zero is still in the vertex extras
C22_Witness ==
  /\ lastUpdate.buffer = "A"
  /\ water.m_WriteBuffer = "A"
  /\ water.m_VertexBufferA
       # InitialVertices(water.m_fft_XStride, water.m_XLength)
  /\ water.m_VertexBufferB
       # InitialVertices(water.m_fft_XStride, water.m_XLength)
  /\ water.m_VertexBufferA # water.m_VertexBufferB
  /\ water.m_VertexExtrasBuffer[1].m_HTilde0 # Complex(0, 0)
  /\ Len(water.m_OffsetBuffer) = Expansion * Expansion

C24_SeedsAreHermitian ==
  seedPc = "mirrored" =>
    m_VertexExtra.m_HTilde0Conjugate = Conjugate(m_MirrorHTilde0)

\* ------------------------------------------------------------------------
\* The scales of one Update
\* ------------------------------------------------------------------------
\* C29: the vertices one Update writes are computed with one value of
\* m_HeightScale and one value of m_DisplaceScale, also when the consumer
\* assigns the two while the Update runs.
C29_OneScalePerUpdate ==
  /\ Cardinality(heightScalesRead) <= 1
  /\ Cardinality(displaceScalesRead) <= 1

\* ------------------------------------------------------------------------
\* Complex arithmetic
\* ------------------------------------------------------------------------
\* the operand a compound operator was called with
Operand == IF aliased THEN thisBefore ELSE argument

\* C26: operator* returns (ac - bd) + (ad + bc)i; each of +=, -= and *=
\* leaves *this equal to what +, - and * return for the same operands, also
\* when the argument is *this itself; multiplication is commutative;
\* Conjugate is an involution and the conjugate of a product is the product
\* of the conjugates.
C26_ComplexArithmetic ==
  complexPc = "done" =>
    LET a == thisBefore.re
        b == thisBefore.im
        c == argument.re
        d == argument.im
    IN /\ op = "*" =>
            /\ returned = Complex(a * c - b * d, a * d + b * c)
            /\ returned = ComplexMul(argument, thisBefore)
            /\ Conjugate(returned)
                 = ComplexMul(Conjugate(thisBefore), Conjugate(argument))
       /\ op = "+" => returned = Complex(a + c, b + d)
       /\ op = "-" => returned = Complex(a - c, b - d)
       /\ op = "+=" => thisAfter = ComplexAdd(thisBefore, Operand)
       /\ op = "-=" => thisAfter = ComplexSub(thisBefore, Operand)
       /\ op = "*=" => thisAfter = ComplexMul(thisBefore, Operand)
       /\ op \in {"+=", "-=", "*="} => returned = thisAfter
       /\ op = "Conjugate" =>
            /\ returned = Complex(a, 0 - b)
            /\ Conjugate(returned) = thisBefore

\* C27: DispersionRelation(k) is a non-negative integer multiple n * w_0 of
\* w_0 = 2 pi / 200 with n * w_0 <= sqrt(gravity * |k|), and the coefficient
\* is exactly periodic with period 200: what HTilde returns at a time of 200
\* or more is what it returns for the time 200 earlier.
C27_PeriodicInTime ==
  htildePc = "done" =>
    LET n == DispersionRelation(k)
    IN /\ n \in Nat
       /\ n * n * n * n <= DispersionScale * LengthSquared(k)
       /\ time >= W0Period =>
            \E earlier \in Roundings(n, time - W0Period) :
              htilde = HTilde(htilde0, htilde0_conjugate, k,
                              time - W0Period, earlier)

\* x *= x for an x with both parts different from zero
C26_Witness ==
  /\ complexPc = "done"
  /\ op = "*="
  /\ aliased
  /\ thisBefore = Complex(1, -1)
  /\ thisAfter = Complex(0, -2)

====
